---- MODULE Spec2Model ----
(***************************************************************************)
(* movodoro: selection engine (selector.go), day-partitioned CSV history   *)
(* store (history.go) and the get / done / skip commands (commands.go).    *)
(*                                                                         *)
(* Weights are kept in tenths (1.0 is written 10) so that the float        *)
(* products of calculateWeight stay integers.  The clock counts ticks,     *)
(* TicksPerDay ticks to a calendar day; a log partition is a calendar day. *)
(***************************************************************************)
EXTENDS Integers, Sequences, FiniteSets, TLC

\* ------------------------------------------------------------------ bounds
MaxLog == 2
MaxAdvances == 1
MaxRecords == 3
MaxDuration == 12
TicksPerDay == 2

\* ------------------------------------------------------- program constants
minPerDayBoost == 10
neverDoneBoost == 3
recencyBoost == 2
recencyDays == 7
autoRecoveryMaxRPE == 2
maxDailyRPEDefault == 30
UnsetMaxDuration == 999

VARIABLES snacks, logs, now, advances, current, last

vars == <<snacks, logs, now, advances, current, last>>

\* ------------------------------------------------------------ sequence help
RECURSIVE SumSeq(_)
SumSeq(s) == IF s = <<>> THEN 0 ELSE Head(s) + SumSeq(Tail(s))

RECURSIVE FlattenSeq(_)
FlattenSeq(ss) == IF ss = <<>> THEN <<>> ELSE Head(ss) \o FlattenSeq(Tail(ss))

Range(s) == {s[i] : i \in 1..Len(s)}

\* ------------------------------------------------------------------ strings
\* strings.ToLower / strings.ToUpper on the strings that occur in the model
ToLower(s) ==
  CASE s = "BREATHX" -> "breathx"
    [] s = "Calm"    -> "calm"
    [] s = "TS"      -> "ts"
    [] s = "TB"      -> "tb"
    [] s = "Yes"     -> "yes"
    [] s = "Y"       -> "y"
    [] OTHER         -> s

ToUpper(s) ==
  CASE s = "ts"      -> "TS"
    [] s = "tb"      -> "TB"
    [] s = "breathx" -> "BREATHX"
    [] s = "calm"    -> "CALM"
    [] s = "Calm"    -> "CALM"
    [] OTHER         -> s

\* ------------------------------------------------------------------ catalog
\* A resolved Movo, as LoadSnacks leaves it.
Movo(code, cat, dmin, dmax, rpe, maxDay, minDay, weight, tags) ==
  [FullCode |-> code, CategoryCode |-> cat, DurationMin |-> dmin,
   DurationMax |-> dmax, EffectiveRPE |-> rpe, MaxPerDay |-> maxDay,
   MinPerDay |-> minDay, Weight |-> weight, AllTags |-> tags]

Catalog ==
  << Movo("TB-box-breath", "TB", 3, 5, 1, 2, 1, 10, <<"breathx", "Calm">>),
     Movo("TS-pushups",    "TS", 3, 5, 5, 0, 0, 15, <<"strengthx">>),
     Movo("TS-plank",      "TS", 6, 10, 7, 1, 1, 10, <<"strengthx", "corex">>) >>

NoSnack == "-"

Codes == {Catalog[i].FullCode : i \in 1..Len(Catalog)}

FindSnack(list, code) ==
  IF \E i \in 1..Len(list) : list[i].FullCode = code
  THEN list[CHOOSE i \in 1..Len(list) :
              /\ list[i].FullCode = code
              /\ \A j \in 1..(i-1) : list[j].FullCode # code]
  ELSE [FullCode |-> NoSnack]

\* (variant) the midpoint rounded down
GetDefaultDuration_Floor(s) == (s.DurationMin + s.DurationMax) \div 2

GetDefaultDuration(s) == (s.DurationMin + s.DurationMax + 1) \div 2

HasAllTags(s, tags) ==
  IF Len(tags) = 0 THEN TRUE
  ELSE LET snackTagSet == {ToLower(s.AllTags[i]) : i \in 1..Len(s.AllTags)}
       IN  \A k \in 1..Len(tags) : ToLower(tags[k]) \in snackTagSet

MatchesDuration(s, minDur, maxDur) ==
  IF minDur = 0 /\ maxDur = 0 THEN TRUE
  ELSE s.DurationMax >= minDur /\ s.DurationMin <= maxDur

\* ------------------------------------------------------------ history store
\* A log file is a sequence of CSV records; a record is a sequence of
\* fields.  A field written by strconv.Itoa or Timestamp.Format is Num(n),
\* any other text is the text itself wrapped by Txt.
Num(n) == <<"n", n>>
Txt(t) == <<"t", t>>

Header == << Txt("timestamp"), Txt("code"), Txt("status"),
             Txt("duration"), Txt("rpe"), Txt("subset") >>

DayOf(t) == t \div TicksPerDay

Today == DayOf(now)

\* the log directory: logs[d] is the file of day d, for the days that have one
LogDays == DOMAIN logs

FileOf(day) == IF day \in LogDays THEN logs[day] ELSE <<>>

parseCSVRecord(record) ==
  IF Len(record) # 6 THEN [err |-> "fields"]
  ELSE IF record[1][1] # "n" THEN [err |-> "timestamp"]
  ELSE IF record[4][1] # "n" THEN [err |-> "duration"]
  ELSE IF record[5][1] # "n" THEN [err |-> "rpe"]
  ELSE [err |-> "", Timestamp |-> record[1][2], Code |-> record[2][2],
        Status |-> record[3][2], Duration |-> record[4][2],
        RPE |-> record[5][2], Subset |-> record[6][2]]

\* the entries of one file: the header row is skipped, a record that does
\* not parse is skipped
ParseRecords(records) ==
  LET body == IF /\ Len(records) > 0
                 /\ records[1][1][1] = "t"
                 /\ records[1][1][2] = "timestamp"
              THEN Tail(records) ELSE records
      parsed == [i \in 1..Len(body) |-> parseCSVRecord(body[i])]
  IN  SelectSeq(parsed, LAMBDA e : e.err = "")

\* csv.Reader.ReadAll: every record must have as many fields as the first
ReadAll(records) ==
  [err     |-> \E i \in 1..Len(records) : Len(records[i]) # Len(records[1]),
   records |-> records]

\* a missing file is an empty log; a file that is not CSV is an error
LoadDailyLog(day) ==
  LET read == ReadAll(FileOf(day))
  IN  IF read.err THEN [err |-> "StoreError", entries |-> <<>>]
      ELSE [err |-> "", entries |-> ParseRecords(read.records)]

\* the days of a set in increasing order (sort.Strings on YYYYMMDD names)
RECURSIVE SortedDays(_)
SortedDays(ds) ==
  IF ds = {} THEN <<>>
  ELSE LET d == CHOOSE x \in ds : \A y \in ds : x <= y
       IN  <<d>> \o SortedDays(ds \ {d})

\* every *.csv file in name order, which is date order; a file that is not
\* CSV is passed over
LoadAllHistory ==
  LET files == SortedDays(LogDays)
  IN  FlattenSeq([k \in 1..Len(files) |->
                    LET read == ReadAll(logs[files[k]])
                    IN  IF read.err THEN <<>> ELSE ParseRecords(read.records)])

\* (variant) the file is opened for writing without O_APPEND
AppendTodayLog_Truncate(entry) ==
  LET record == << Num(entry.Timestamp), Txt(entry.Code), Txt(entry.Status),
                   Num(entry.Duration), Num(entry.RPE), Txt(entry.Subset) >>
  IN  [d \in LogDays \cup {Today} |->
         IF d = Today THEN <<Header, record>> ELSE logs[d]]

\* the file content after AppendTodayLog(entry)
AppendTodayLog(entry) ==
  LET old == FileOf(Today)
      writeHeader == Len(old) = 0
      record == << Num(entry.Timestamp), Txt(entry.Code), Txt(entry.Status),
                   Num(entry.Duration), Num(entry.RPE), Txt(entry.Subset) >>
      file == (IF writeHeader THEN <<Header>> ELSE old) \o <<record>>
  IN  [d \in LogDays \cup {Today} |-> IF d = Today THEN file ELSE logs[d]]

\* (variant) only completed entries are counted in TotalMovos
GetTodayStatsDaily_DoneOnly ==
  LET loaded == LoadDailyLog(Today)
      entries == loaded.entries
      done == SelectSeq(entries, LAMBDA e : e.Status = "done")
      skip == SelectSeq(entries, LAMBDA e : e.Status = "skip")
  IN  [err             |-> loaded.err,
       TotalMovos      |-> Len(done),
       TotalDuration   |-> SumSeq([i \in 1..Len(done) |-> done[i].Duration]),
       TotalRPE        |-> SumSeq([i \in 1..Len(done) |-> done[i].RPE]),
       CompletedSnacks |-> done,
       SkippedSnacks   |-> skip]

\* the accumulation loop of GetTodayStatsDaily over the loaded entries
DailyStats(err, entries, done, skip) ==
  [err             |-> err,
   TotalMovos      |-> Len(entries),
   TotalDuration   |-> SumSeq([i \in 1..Len(done) |-> done[i].Duration]),
   TotalRPE        |-> SumSeq([i \in 1..Len(done) |-> done[i].RPE]),
   CompletedSnacks |-> done,
   SkippedSnacks   |-> skip]

StatsOf(loaded) ==
  DailyStats(loaded.err, loaded.entries,
             SelectSeq(loaded.entries, LAMBDA e : e.Status = "done"),
             SelectSeq(loaded.entries, LAMBDA e : e.Status = "skip"))

GetTodayStatsDaily == StatsOf(LoadDailyLog(Today))

\* (variant) the whole log directory is emptied
ClearTodayLog_AllDays == [err |-> "", logs |-> <<>>]

\* os.Remove on today's file; a file that does not exist is no error
ClearTodayLog ==
  [err |-> "", logs |-> [d \in LogDays \ {Today} |-> logs[d]]]

\* (variant) a skipped record counts as a completion
GetCountTodayDaily_AnyStatus(code) ==
  LET loaded == LoadDailyLog(Today)
      entries == loaded.entries
      hits == Cardinality({i \in 1..Len(entries) : entries[i].Code = code})
  IN  [err |-> loaded.err, done |-> hits, skipped |-> hits]

\* the counting loop of GetCountTodayDaily over the loaded entries
CountOf(loaded, code) ==
  [err     |-> loaded.err,
   done    |-> Cardinality({i \in 1..Len(loaded.entries) :
                  /\ loaded.entries[i].Code = code
                  /\ loaded.entries[i].Status = "done"}),
   skipped |-> Cardinality({i \in 1..Len(loaded.entries) :
                  /\ loaded.entries[i].Code = code
                  /\ loaded.entries[i].Status = "skip"})]

GetCountTodayDaily(code) == CountOf(LoadDailyLog(Today), code)

NoTime == -1

\* the timestamp of the last completed record in file order, NoTime for nil
LastDoneOf(entries, code) ==
  LET hits == {i \in 1..Len(entries) :
                 entries[i].Code = code /\ entries[i].Status = "done"}
  IN  IF hits = {} THEN NoTime
      ELSE entries[CHOOSE i \in hits : \A j \in hits : j <= i].Timestamp

GetLastDoneDaily(code) == LastDoneOf(LoadAllHistory, code)

HasEverBeenDoneDaily(code) == GetLastDoneDaily(code) # NoTime

\* ------------------------------------------------------------------ subsets
\* subsets.yaml: name -> allow-list of full codes
Subsets ==
  [recovery |-> <<"TS-pushups", "TB-box-breath">>,
   core     |-> <<"TS-plank">>,
   empty    |-> <<>>]

SubsetNames == {"recovery", "core", "empty"}

\* (variant) the result follows the allow-list, not the input
filterBySubset_ListOrder(items, subsetName) ==
  IF subsetName = "" THEN [err |-> "", items |-> items]
  ELSE IF subsetName \notin SubsetNames
       THEN [err |-> "UnknownSubset", items |-> <<>>]
       ELSE [err |-> "",
             items |-> LET allow == Subsets[subsetName]
                           kept  == SelectSeq(allow, LAMBDA c :
                                      FindSnack(items, c).FullCode = c)
                       IN  [i \in 1..Len(kept) |-> FindSnack(items, kept[i])]]

filterBySubset(items, subsetName) ==
  IF subsetName = "" THEN [err |-> "", items |-> items]
  ELSE IF subsetName \notin SubsetNames
       THEN [err |-> "UnknownSubset", items |-> <<>>]
       ELSE [err |-> "",
             items |-> SelectSeq(items,
                         LAMBDA s : s.FullCode \in Range(Subsets[subsetName]))]

\* ----------------------------------------------------------------- selector
FilterOptions(tags, category, minDur, maxDur, exact, minRPE, maxRPE, skipMin, subset) ==
  [Tags |-> tags, Category |-> category, MinDuration |-> minDur,
   MaxDuration |-> maxDur, ExactDuration |-> exact, MinRPE |-> minRPE,
   MaxRPE |-> maxRPE, SkipMinimums |-> skipMin, Subset |-> subset]

NoFilters == FilterOptions(<<>>, "", 0, 0, 0, 0, 0, FALSE, "")

PassesFilters(snack, filters) ==
  /\ ~(filters.Category # "" /\ snack.CategoryCode # filters.Category)
  /\ HasAllTags(snack, filters.Tags)
  /\ ~(filters.MinRPE > 0 /\ snack.EffectiveRPE < filters.MinRPE)
  /\ ~(filters.MaxRPE > 0 /\ snack.EffectiveRPE > filters.MaxRPE)
  /\ IF filters.ExactDuration > 0
     THEN ~(filters.ExactDuration < snack.DurationMin
            \/ filters.ExactDuration > snack.DurationMax)
     ELSE LET minDur == filters.MinDuration
              maxDur == IF filters.MaxDuration = 0 THEN UnsetMaxDuration
                        ELSE filters.MaxDuration
          IN  MatchesDuration(snack, minDur, maxDur)

\* (variant) a passing snack is put in front of the result
filterSnacks_Prepend(list, filters) ==
  LET kept == SelectSeq(list, LAMBDA snack : PassesFilters(snack, filters))
  IN  [i \in 1..Len(kept) |-> kept[Len(kept) + 1 - i]]

filterSnacks(list, filters) ==
  SelectSeq(list, LAMBDA snack : PassesFilters(snack, filters))

\* (variant) a met minimum still counts as incomplete
filterToIncompleteMinimums_Inclusive(list) ==
  SelectSeq(list, LAMBDA snack :
    /\ snack.MinPerDay # 0
    /\ GetCountTodayDaily(snack.FullCode).done <= snack.MinPerDay)

filterToIncompleteMinimums(list) ==
  SelectSeq(list, LAMBDA snack :
    /\ snack.MinPerDay # 0
    /\ GetCountTodayDaily(snack.FullCode).done < snack.MinPerDay)

\* (variant) the cap is never applied
filterByFrequency_None(list) == list

\* (variant) the cap allows one completion too many
filterByFrequency_Strict(list) ==
  SelectSeq(list, LAMBDA snack :
    ~(snack.MaxPerDay > 0
      /\ GetCountTodayDaily(snack.FullCode).done > snack.MaxPerDay))

filterByFrequency(list) ==
  SelectSeq(list, LAMBDA snack :
    ~(snack.MaxPerDay > 0
      /\ GetCountTodayDaily(snack.FullCode).done >= snack.MaxPerDay))

\* (variant) any record of the code, a skip too, ends the never-done boost
calculateWeight_SkipCounts(snack) ==
  LET w0 == snack.Weight
      w1 == IF snack.MinPerDay > 0
               /\ GetCountTodayDaily(snack.FullCode).done < snack.MinPerDay
            THEN w0 * minPerDayBoost ELSE w0
      entries == LoadAllHistory
      w2 == IF ~(\E i \in 1..Len(entries) : entries[i].Code = snack.FullCode)
            THEN w1 * neverDoneBoost ELSE w1
      lastDone == GetLastDoneDaily(snack.FullCode)
      w3 == IF lastDone # NoTime
               /\ now - lastDone >= recencyDays * TicksPerDay
            THEN w2 * recencyBoost ELSE w2
  IN  w3

\* (variant) the never-done and the recency multipliers are exchanged
calculateWeight_BoostsSwapped(snack) ==
  LET w0 == snack.Weight
      w1 == IF snack.MinPerDay > 0
               /\ GetCountTodayDaily(snack.FullCode).done < snack.MinPerDay
            THEN w0 * minPerDayBoost ELSE w0
      w2 == IF ~HasEverBeenDoneDaily(snack.FullCode)
            THEN w1 * recencyBoost ELSE w1
      lastDone == GetLastDoneDaily(snack.FullCode)
      w3 == IF lastDone # NoTime
               /\ now - lastDone >= recencyDays * TicksPerDay
            THEN w2 * neverDoneBoost ELSE w2
  IN  w3

\* (variant) an item never done counts as not done recently
calculateWeight_NilIsOld(snack) ==
  LET w0 == snack.Weight
      w1 == IF snack.MinPerDay > 0
               /\ GetCountTodayDaily(snack.FullCode).done < snack.MinPerDay
            THEN w0 * minPerDayBoost ELSE w0
      w2 == IF ~HasEverBeenDoneDaily(snack.FullCode)
            THEN w1 * neverDoneBoost ELSE w1
      lastDone == GetLastDoneDaily(snack.FullCode)
      w3 == IF lastDone = NoTime
               \/ now - lastDone >= recencyDays * TicksPerDay
            THEN w2 * recencyBoost ELSE w2
  IN  w3

\* (variant) the min-per-day boost does not look at today's count
calculateWeight_BoostAnyMinimum(snack) ==
  LET w0 == snack.Weight
      w1 == IF snack.MinPerDay > 0
            THEN w0 * minPerDayBoost ELSE w0
      w2 == IF ~HasEverBeenDoneDaily(snack.FullCode)
            THEN w1 * neverDoneBoost ELSE w1
      lastDone == GetLastDoneDaily(snack.FullCode)
      w3 == IF lastDone # NoTime
               /\ now - lastDone >= recencyDays * TicksPerDay
            THEN w2 * recencyBoost ELSE w2
  IN  w3

calculateWeight(snack) ==
  LET w0 == snack.Weight
      w1 == IF snack.MinPerDay > 0
               /\ GetCountTodayDaily(snack.FullCode).done < snack.MinPerDay
            THEN w0 * minPerDayBoost ELSE w0
      w2 == IF ~HasEverBeenDoneDaily(snack.FullCode)
            THEN w1 * neverDoneBoost ELSE w1
      lastDone == GetLastDoneDaily(snack.FullCode)
      w3 == IF lastDone # NoTime
               /\ now - lastDone >= recencyDays * TicksPerDay
            THEN w2 * recencyBoost ELSE w2
  IN  w3

\* weighted: sequence of [snack, weight]; r: the drawn value in [0, total)
\* (variant) the draw avoids the snack that was suggested last
weightedRandomSelect_AvoidCurrent(weighted, r) ==
  LET others == SelectSeq(weighted, LAMBDA w : w.snack.FullCode # current)
  IN  IF others # <<>> THEN others[1].snack ELSE weighted[1].snack

weightedRandomSelect(weighted, r) ==
  LET cumulative(i) == SumSeq([k \in 1..i |-> weighted[k].weight])
      hits == {i \in 1..Len(weighted) : r <= cumulative(i)}
  IN  IF hits # {}
      THEN weighted[CHOOSE i \in hits : \A j \in hits : i <= j].snack
      ELSE weighted[Len(weighted)].snack

TotalWeight(weighted) == SumSeq([k \in 1..Len(weighted) |-> weighted[k].weight])

CodesOf(list) == [i \in 1..Len(list) |-> list[i].FullCode]

InRecoveryMode(maxDailyRPE) == GetTodayStatsDaily.TotalRPE >= maxDailyRPE

\* (variant) recovery only once the total is above the cap
EffectiveFilters_Above(filters, maxDailyRPE) ==
  IF GetTodayStatsDaily.TotalRPE > maxDailyRPE
  THEN [filters EXCEPT !.MaxRPE = autoRecoveryMaxRPE]
  ELSE filters

\* the filters the pipeline runs with: recovery mode overrides MaxRPE
EffectiveFilters(filters, maxDailyRPE) ==
  IF InRecoveryMode(maxDailyRPE)
  THEN [filters EXCEPT !.MaxRPE = autoRecoveryMaxRPE]
  ELSE filters

\* (variant) the priority is only a weight matter: the candidates are kept
PriorityTier_Keep(candidates, filters) == candidates

\* (variant) the incomplete minimums are looked for in the whole catalog
PriorityTier_Global(candidates, filters) ==
  IF ~filters.SkipMinimums
  THEN LET minimumCandidates == filterToIncompleteMinimums(snacks)
       IN  IF Len(minimumCandidates) > 0 THEN minimumCandidates
           ELSE candidates
  ELSE candidates

\* (variant) the priority applies only when every candidate is an
\* incomplete minimum
PriorityTier_AllOrNothing(candidates, filters) ==
  IF ~filters.SkipMinimums
  THEN LET minimumCandidates == filterToIncompleteMinimums(candidates)
       IN  IF Len(minimumCandidates) = Len(candidates) THEN minimumCandidates
           ELSE candidates
  ELSE candidates

\* min_per_day priority: the incomplete minimums replace the candidates
\* when there are any, unless the caller skips the priority
PriorityTier(candidates, filters) ==
  IF ~filters.SkipMinimums
  THEN LET minimumCandidates == filterToIncompleteMinimums(candidates)
       IN  IF Len(minimumCandidates) > 0 THEN minimumCandidates
           ELSE candidates
  ELSE candidates

Weigh(pool) ==
  [i \in 1..Len(pool) |->
     [snack |-> pool[i], weight |-> calculateWeight(pool[i])]]

\* (variant) the engine remembers the snack it suggested last and does not
\* suggest it twice in a row
SelectStages_NoRepeat(list, filters, maxDailyRPE) ==
  LET eff == EffectiveFilters(filters, maxDailyRPE)
      filtered == SelectSeq(filterSnacks(list, eff), LAMBDA s : s.FullCode # current)
      sub == filterBySubset(filtered, eff.Subset)
      candidates == sub.items
      tier == PriorityTier(candidates, eff)
      pool == filterByFrequency(tier)
      none == [recovery |-> InRecoveryMode(maxDailyRPE), filters |-> eff,
               filtered |-> <<>>, candidates |-> <<>>, tier |-> <<>>,
               pool |-> <<>>, weighted |-> <<>>, err |-> ""]
  IN  IF GetTodayStatsDaily.err # ""
      THEN [none EXCEPT !.err = GetTodayStatsDaily.err]
      ELSE IF Len(filtered) = 0
      THEN [none EXCEPT !.err = "NoMatch"]
      ELSE IF sub.err # ""
      THEN [none EXCEPT !.filtered = filtered, !.err = sub.err]
      ELSE IF Len(candidates) = 0
      THEN [none EXCEPT !.filtered = filtered, !.err = "NoMatch"]
      ELSE IF Len(pool) = 0
      THEN [none EXCEPT !.filtered = filtered, !.candidates = candidates,
                        !.tier = tier, !.err = "ExhaustedToday"]
      ELSE [none EXCEPT !.filtered = filtered, !.candidates = candidates,
                        !.tier = tier, !.pool = pool,
                        !.weighted = Weigh(pool)]

\* The stages of SelectSnack; err # "" is an early return, and the stages
\* after it were not run (their lists stay empty).  The later stages read
\* today's file again through GetCountTodayDaily; in one atomic call these
\* reads fail exactly when the first one does.
SelectStages(list, filters, maxDailyRPE) ==
  LET eff == EffectiveFilters(filters, maxDailyRPE)
      filtered == filterSnacks(list, eff)
      sub == filterBySubset(filtered, eff.Subset)
      candidates == sub.items
      tier == PriorityTier(candidates, eff)
      pool == filterByFrequency(tier)
      none == [recovery |-> InRecoveryMode(maxDailyRPE), filters |-> eff,
               filtered |-> <<>>, candidates |-> <<>>, tier |-> <<>>,
               pool |-> <<>>, weighted |-> <<>>, err |-> ""]
  IN  IF GetTodayStatsDaily.err # ""
      THEN [none EXCEPT !.err = GetTodayStatsDaily.err]
      ELSE IF Len(filtered) = 0
      THEN [none EXCEPT !.err = "NoMatch"]
      ELSE IF sub.err # ""
      THEN [none EXCEPT !.filtered = filtered, !.err = sub.err]
      ELSE IF Len(candidates) = 0
      THEN [none EXCEPT !.filtered = filtered, !.err = "NoMatch"]
      ELSE IF Len(pool) = 0
      THEN [none EXCEPT !.filtered = filtered, !.candidates = candidates,
                        !.tier = tier, !.err = "ExhaustedToday"]
      ELSE [none EXCEPT !.filtered = filtered, !.candidates = candidates,
                        !.tier = tier, !.pool = pool,
                        !.weighted = Weigh(pool)]

\* SelectSnack with the value r that rand.Float64() * totalWeight takes
SelectSnack(list, filters, maxDailyRPE, r) ==
  LET st == SelectStages(list, filters, maxDailyRPE)
  IN  IF st.err # "" THEN NoSnack
      ELSE weightedRandomSelect(st.weighted, r).FullCode

\* what a command leaves on the terminal
NoOutput == [cmd |-> "none"]

GetOutput(filters, st, code) ==
  [cmd |-> "get", asked |-> filters, recovery |-> st.recovery,
   filters |-> st.filters, err |-> st.err, snack |-> code,
   filtered |-> CodesOf(st.filtered), candidates |-> CodesOf(st.candidates),
   tier |-> CodesOf(st.tier), pool |-> CodesOf(st.pool),
   weighted |-> [i \in 1..Len(st.weighted) |->
                   [code |-> st.weighted[i].snack.FullCode,
                    weight |-> st.weighted[i].weight]]]

\* ----------------------------------------------------------------- commands
\* the flag sets `movodoro get` is run with
GetFlags ==
  { NoFilters,
    [NoFilters EXCEPT !.SkipMinimums = TRUE],
    [NoFilters EXCEPT !.MaxRPE = 5],
    [NoFilters EXCEPT !.Category = "ts"],
    [NoFilters EXCEPT !.Subset = "recovery"],
    [NoFilters EXCEPT !.Subset = "core"] }

NoCurrent == ""

\* the records in the log directory, headers not counted
EntriesWritten ==
  LET files == SortedDays(LogDays)
  IN  SumSeq([k \in 1..Len(files) |-> Len(logs[files[k]]) - 1])

Init ==
  /\ snacks = Catalog
  /\ logs = <<>>
  /\ now = 0
  /\ advances = 0
  /\ current = NoCurrent
  /\ last = NoOutput

\* the values of r that separate the outcomes of the draw: each running
\* sum, the value just above it, and 0
Draws(weighted) ==
  LET total == TotalWeight(weighted)
      sums == {SumSeq([k \in 1..i |-> weighted[k].weight]) : i \in 1..Len(weighted)}
  IN  {r \in {0} \cup sums \cup {c + 1 : c \in sums} : r = 0 \/ r < total}

\* what a run of `movodoro get [flags]` can print and save, one outcome per
\* value of the draw
RunsOf(filters, st) ==
  { [out   |-> GetOutput(filters, st, code),
     saved |-> IF st.err = "" THEN code ELSE current] :
    code \in { IF st.err # "" THEN NoSnack
               ELSE weightedRandomSelect(st.weighted, r).FullCode :
               r \in Draws(st.weighted) } }

GetRuns(flags) ==
  UNION { RunsOf([flags EXCEPT !.Category = ToUpper(flags.Category)], st) :
          st \in { SelectStages(snacks,
                                [flags EXCEPT !.Category = ToUpper(flags.Category)],
                                maxDailyRPEDefault) } }

\* movodoro get [flags]
handleGet(flags) ==
  /\ last = NoOutput
  /\ \E run \in GetRuns(flags) :
       /\ last' = run.out
       /\ current' = run.saved
  /\ UNCHANGED <<snacks, logs, now, advances>>

\* the code done / skip act on: the argument, or the saved current snack
NoArg == "<none>"

TargetCode(arg) == IF arg # NoArg THEN arg ELSE current

\* (variant) an answer that is not a number is recorded as 0
PromptValue_InvalidIsZero(input, default) ==
  IF input = "" THEN default
  ELSE IF input[1] = "n" THEN input[2] ELSE 0

\* an answer typed at a prompt: "" keeps the default, Txt is not a number
PromptValue(input, default) ==
  IF input = "" THEN default
  ELSE IF input[1] = "n" THEN input[2] ELSE default

\* movodoro done [CODE], with the answers to the two prompts
handleDone(arg, durationInput, rpeInput) ==
  /\ last = NoOutput
  /\ LET code == TargetCode(arg)
         snack == FindSnack(snacks, code)
     IN  IF (arg = NoArg /\ current = NoCurrent) \/ snack.FullCode = NoSnack
         THEN /\ last' = NoOutput
              /\ UNCHANGED <<snacks, logs, now, advances, current>>
         ELSE LET entry == [Timestamp |-> now, Code |-> code, Status |-> "done",
                            Duration |-> PromptValue(durationInput,
                                                     GetDefaultDuration(snack)),
                            RPE |-> PromptValue(rpeInput, snack.EffectiveRPE),
                            Subset |-> ""]
              IN  /\ EntriesWritten < MaxLog
                  /\ logs' = AppendTodayLog(entry)
                  /\ last' = NoOutput
                  /\ UNCHANGED <<snacks, now, advances, current>>

\* movodoro skip [CODE]
handleSkip(arg) ==
  /\ last = NoOutput
  /\ LET code == TargetCode(arg)
         snack == FindSnack(snacks, code)
     IN  IF (arg = NoArg /\ current = NoCurrent) \/ snack.FullCode = NoSnack
         THEN /\ last' = NoOutput
              /\ UNCHANGED <<snacks, logs, now, advances, current>>
         ELSE LET entry == [Timestamp |-> now, Code |-> code, Status |-> "skip",
                            Duration |-> 0, RPE |-> 0, Subset |-> ""]
              IN  /\ EntriesWritten < MaxLog
                  /\ logs' = AppendTodayLog(entry)
                  /\ last' = NoOutput
                  /\ UNCHANGED <<snacks, now, advances, current>>

\* time passes between two runs of the program
AdvanceSteps ==
  {1, recencyDays * TicksPerDay - 1, recencyDays * TicksPerDay}

Advance(step) ==
  /\ last = NoOutput
  /\ advances < MaxAdvances
  /\ now' = now + step
  /\ advances' = advances + 1
  /\ last' = NoOutput
  /\ UNCHANGED <<snacks, logs, current>>

\* the get process ends; its result is no longer on display
Exit ==
  /\ last.cmd = "get"
  /\ last' = NoOutput
  /\ UNCHANGED <<snacks, logs, now, advances, current>>

DoneArgs == {NoArg, "TB-box-breath", "TS-pushups", "TS-plank", "ZZ-unknown"}

PromptInputs == {"", Num(30)}

Next ==
  \/ \E flags \in GetFlags : handleGet(flags)
  \/ \E arg \in DoneArgs, rpeInput \in PromptInputs : handleDone(arg, "", rpeInput)
  \/ \E arg \in DoneArgs : handleSkip(arg)
  \/ \E step \in AdvanceSteps : Advance(step)
  \/ Exit

Spec == Init /\ [][Next]_vars

\* A command that started runs to its end, the user keeps logging and the
\* clock keeps running for as long as the bounds leave room.
FairSpec ==
  /\ Spec
  /\ WF_vars(Exit)
  /\ WF_vars(\E arg \in DoneArgs, rpeInput \in PromptInputs : handleDone(arg, "", rpeInput))
  /\ WF_vars(\E arg \in DoneArgs : handleSkip(arg))
  /\ WF_vars(\E step \in AdvanceSteps : Advance(step))

\* --------------------------------------------------- the filters on their own
\* filterSnacks and filterBySubset called directly on a loaded catalog, as
\* TestFilterSnacksByRPE and TestSubsetWithOtherFilters call them.
FilterCatalog ==
  Catalog \o << Movo("TL-long-walk", "TL", 1000, 1200, 3, 0, 0, 10, <<"Walk">>) >>

FilterSpace ==
  { FilterOptions(tags, category, minDur, maxDur, exact, minRPE, maxRPE, FALSE, subset) :
      tags \in {<<>>, <<"BREATHX">>, <<"strengthx", "COREX">>, <<"nope">>},
      category \in {"", "TB", "TS"},
      minDur \in {0, 4, 5, 11},
      maxDur \in {0, 3, 5},
      exact \in {0, 4, 6},
      minRPE \in {0, 5, 7},
      maxRPE \in {0, 2, 5},
      subset \in {"", "recovery", "core", "empty", "nope"} }

FilterInit ==
  /\ snacks = FilterCatalog
  /\ logs = <<>>
  /\ now = 0
  /\ advances = 0
  /\ current = NoCurrent
  /\ last = NoOutput

SubsetOutput(res) == [err |-> res.err, items |-> CodesOf(res.items)]

ApplyFilters(filters) ==
  /\ last = NoOutput
  /\ LET candidates == filterSnacks(snacks, filters)
     IN  last' = [cmd |-> "filter", filters |-> filters,
                  filtered |-> CodesOf(candidates),
                  subset |-> SubsetOutput(filterBySubset(candidates, filters.Subset)),
                  direct |-> SubsetOutput(filterBySubset(snacks, filters.Subset))]
  /\ UNCHANGED <<snacks, logs, now, advances, current>>

FilterNext == \E filters \in FilterSpace : ApplyFilters(filters)

SpecFilter == FilterInit /\ [][FilterNext]_vars

\* ------------------------------------------------------- interactive mode
\* `movodoro` without a command.  pc = "select" is the top of the loop of
\* handleInteractive, pc = "choice" is the prompt of getInteractiveChoice.
Session(pc, skipMinimums, shown, resumed) ==
  [cmd |-> "interactive", pc |-> pc, skipMinimums |-> skipMinimums,
   shown |-> shown, resumed |-> resumed]

InSession(pc) == last.cmd = "interactive" /\ last.pc = pc

handleInteractive ==
  /\ last = NoOutput
  /\ last' = Session("select", FALSE, NoSnack, FALSE)
  /\ UNCHANGED <<snacks, logs, now, advances, current>>

\* one pass from the top of the loop to the prompt: the saved snack is
\* resumed, or a new one is selected; then it is saved and displayed
ShowNext ==
  /\ InSession("select")
  /\ IF current # NoCurrent /\ FindSnack(snacks, current).FullCode # NoSnack
     THEN /\ last' = Session("choice", last.skipMinimums, current, TRUE)
          /\ current' = current
     ELSE LET filters == [NoFilters EXCEPT !.SkipMinimums = last.skipMinimums]
              st == SelectStages(snacks, filters, maxDailyRPEDefault)
          IN  IF st.err # ""
              THEN /\ last' = NoOutput
                   /\ current' = current
              ELSE \E r \in Draws(st.weighted) :
                     LET code == weightedRandomSelect(st.weighted, r).FullCode
                     IN  /\ last' = Session("choice", last.skipMinimums, code, FALSE)
                         /\ current' = code
  /\ UNCHANGED <<snacks, logs, now, advances>>

\* [d]: handleDoneInteractive, the saved snack is removed, the session ends
ChooseDone(durationInput, rpeInput) ==
  /\ InSession("choice")
  /\ EntriesWritten < MaxLog
  /\ LET snack == FindSnack(snacks, last.shown)
         entry == [Timestamp |-> now, Code |-> snack.FullCode, Status |-> "done",
                   Duration |-> PromptValue(durationInput, GetDefaultDuration(snack)),
                   RPE |-> PromptValue(rpeInput, snack.EffectiveRPE),
                   Subset |-> ""]
     IN  logs' = AppendTodayLog(entry)
  /\ current' = NoCurrent
  /\ last' = NoOutput
  /\ UNCHANGED <<snacks, now, advances>>

\* (variant) the skip-dailies flag survives a skip
ChooseSkip_KeepsFlag ==
  /\ InSession("choice")
  /\ EntriesWritten < MaxLog
  /\ LET entry == [Timestamp |-> now, Code |-> last.shown, Status |-> "skip",
                   Duration |-> 0, RPE |-> 0, Subset |-> ""]
     IN  logs' = AppendTodayLog(entry)
  /\ current' = NoCurrent
  /\ last' = Session("select", last.skipMinimums, NoSnack, FALSE)
  /\ UNCHANGED <<snacks, now, advances>>

\* [s]: handleSkipInteractive, the saved snack is removed, the skip-dailies
\* flag is reset, the loop goes on
ChooseSkip ==
  /\ InSession("choice")
  /\ EntriesWritten < MaxLog
  /\ LET entry == [Timestamp |-> now, Code |-> last.shown, Status |-> "skip",
                   Duration |-> 0, RPE |-> 0, Subset |-> ""]
     IN  logs' = AppendTodayLog(entry)
  /\ current' = NoCurrent
  /\ last' = Session("select", FALSE, NoSnack, FALSE)
  /\ UNCHANGED <<snacks, now, advances>>

\* [x]: acts only on a snack with min_per_day > 0; the loop goes on
ChooseSkipDailies ==
  /\ InSession("choice")
  /\ IF FindSnack(snacks, last.shown).MinPerDay > 0
     THEN /\ current' = NoCurrent
          /\ last' = Session("select", TRUE, NoSnack, FALSE)
     ELSE /\ current' = current
          /\ last' = Session("select", last.skipMinimums, NoSnack, FALSE)
  /\ UNCHANGED <<snacks, logs, now, advances>>

\* (variant) quitting also removes the saved snack
ChooseQuit_Clears ==
  /\ InSession("choice")
  /\ last' = NoOutput
  /\ current' = NoCurrent
  /\ UNCHANGED <<snacks, logs, now, advances>>

\* [q]: the snack stays saved, the session ends
ChooseQuit ==
  /\ InSession("choice")
  /\ last' = NoOutput
  /\ UNCHANGED <<snacks, logs, now, advances, current>>

InteractiveNext ==
  \/ handleInteractive
  \/ ShowNext
  \/ \E rpeInput \in PromptInputs : ChooseDone("", rpeInput)
  \/ ChooseSkip
  \/ ChooseSkipDailies
  \/ ChooseQuit
  \/ \E flags \in GetFlags : handleGet(flags)
  \/ Exit
  \/ \E arg \in DoneArgs, rpeInput \in PromptInputs : handleDone(arg, "", rpeInput)
  \/ \E arg \in DoneArgs : handleSkip(arg)

SpecInteractive == Init /\ [][InteractiveNext]_vars

\* ------------------------------------------------------ get, done, repeat
\* A user who runs `movodoro get` with the same flags again and again and
\* marks every snack it returns as done (`movodoro done`, the duration left
\* at its default).  pc = "get": the next run is a get; pc = "done": a
\* snack was returned and is to be marked; pc = "failed": the get failed.
RoundFlags ==
  { NoFilters,
    [NoFilters EXCEPT !.MaxRPE = 5],
    [NoFilters EXCEPT !.MaxRPE = 2],
    [NoFilters EXCEPT !.MinRPE = 5],
    [NoFilters EXCEPT !.Category = "ts"],
    [NoFilters EXCEPT !.Category = "tb"],
    [NoFilters EXCEPT !.Subset = "recovery"],
    [NoFilters EXCEPT !.Subset = "core"] }

RoundInit ==
  /\ snacks = Catalog
  /\ logs = <<>>
  /\ now = 0
  /\ advances = 0
  /\ current = NoCurrent
  /\ \E flags \in RoundFlags :
       last = [cmd |-> "round", pc |-> "get", flags |-> flags, out |-> NoOutput]

RoundGet ==
  /\ last.cmd = "round"
  /\ last.pc = "get"
  /\ \E run \in GetRuns(last.flags) :
       /\ last' = [last EXCEPT !.out = run.out,
                               !.pc = IF run.out.err = "" THEN "done" ELSE "failed"]
       /\ current' = run.saved
  /\ UNCHANGED <<snacks, logs, now, advances>>

RoundDone(rpeInput) ==
  /\ last.cmd = "round"
  /\ last.pc = "done"
  /\ EntriesWritten < MaxLog
  /\ LET snack == FindSnack(snacks, current)
         entry == [Timestamp |-> now, Code |-> current, Status |-> "done",
                   Duration |-> GetDefaultDuration(snack),
                   RPE |-> PromptValue(rpeInput, snack.EffectiveRPE),
                   Subset |-> ""]
     IN  logs' = AppendTodayLog(entry)
  /\ last' = [last EXCEPT !.pc = "get"]
  /\ UNCHANGED <<snacks, now, advances, current>>

RoundNext ==
  \/ RoundGet
  \/ \E rpeInput \in PromptInputs : RoundDone(rpeInput)

SpecRounds == RoundInit /\ [][RoundNext]_vars

\* ------------------------------------------ catalogs with other day limits
\* LoadSnacks takes min_per_day and max_per_day as the files give them; it
\* does not compare them.  CapCatalog has a snack with min_per_day 2 and
\* max_per_day 1.
CapCatalog ==
  << Movo("TB-box-breath", "TB", 3, 5, 1, 1, 2, 10, <<"breathx", "Calm">>),
     Movo("TS-pushups",    "TS", 3, 5, 5, 0, 0, 15, <<"strengthx">>),
     Movo("TS-plank",      "TS", 6, 10, 7, 1, 0, 10, <<"strengthx", "corex">>) >>

CapCatalogs == {Catalog, CapCatalog}

CapInit ==
  /\ snacks \in CapCatalogs
  /\ logs = <<>>
  /\ now = 0
  /\ advances = 0
  /\ current = NoCurrent
  /\ last = NoOutput

CapNext ==
  \/ \E flags \in GetFlags : handleGet(flags)
  \/ \E arg \in DoneArgs, rpeInput \in PromptInputs : handleDone(arg, "", rpeInput)
  \/ \E arg \in DoneArgs : handleSkip(arg)
  \/ Exit

SpecCaps == CapInit /\ [][CapNext]_vars

\* ------------------------------------------------------ command dispatch
\* main: os.Args[1:] is a sequence of words, a word a sequence of
\* characters.  The words a user asks for the usage text or the version
\* with, and a command main does not know.
HelpWords ==
  { <<"h", "e", "l", "p">>, <<"-", "-", "h", "e", "l", "p">>, <<"-", "h">> }

VersionWords ==
  { <<"v", "e", "r", "s", "i", "o", "n">>,
    <<"-", "-", "v", "e", "r", "s", "i", "o", "n">>, <<"-", "v">> }

UnknownWord == <<"h", "l", "e", "p">>

InfoArgs == { <<word>> : word \in HelpWords \cup VersionWords \cup {UnknownWord} }

\* what printUsage and the version line leave on the terminal, with the
\* exit code of the process
Printed(what, code) == [cmd |-> what, code |-> code]

\* the handler main hands the command line to
Dispatch(args) ==
  IF Len(args) < 1 \/ SubSeq(args[1], 1, 1) = <<"-">> THEN "handleInteractive"
  ELSE IF args[1] = <<"g", "e", "t">> THEN "handleGet"
  ELSE IF args[1] = <<"d", "o", "n", "e">> THEN "handleDone"
  ELSE IF args[1] = <<"s", "k", "i", "p">> THEN "handleSkip"
  ELSE IF args[1] \in { <<"v", "e", "r", "s", "i", "o", "n">>,
                        <<"-", "-", "v", "e", "r", "s", "i", "o", "n">>,
                        <<"-", "v">> } THEN "version"
  ELSE IF args[1] \in { <<"h", "e", "l", "p">>,
                        <<"-", "-", "h", "e", "l", "p">>,
                        <<"-", "h">> } THEN "printUsage"
  ELSE "unknown"

main(args) ==
  /\ last = NoOutput
  /\ \/ Dispatch(args) = "handleInteractive" /\ handleInteractive
     \/ Dispatch(args) = "handleGet" /\ \E flags \in GetFlags : handleGet(flags)
     \/ Dispatch(args) = "handleDone"
          /\ \E rpeInput \in PromptInputs : handleDone(NoArg, "", rpeInput)
     \/ Dispatch(args) = "handleSkip" /\ handleSkip(NoArg)
     \/ /\ Dispatch(args) = "version"
        /\ last' = Printed("version", 0)
        /\ UNCHANGED <<snacks, logs, now, advances, current>>
     \/ /\ Dispatch(args) = "printUsage"
        /\ last' = Printed("usage", 0)
        /\ UNCHANGED <<snacks, logs, now, advances, current>>
     \/ /\ Dispatch(args) = "unknown"
        /\ last' = Printed("usage", 1)
        /\ UNCHANGED <<snacks, logs, now, advances, current>>

\* a process that printed the usage text, the version or the result of a
\* clear, done, skip or everyday ends
Return ==
  /\ last.cmd \in {"usage", "version", "clear", "done", "skip", "everyday",
                  "duration"}
  /\ last' = NoOutput
  /\ UNCHANGED <<snacks, logs, now, advances, current>>

\* a user who runs nothing but the help and version forms (and a mistyped
\* command), and answers whatever prompt appears
DispatchNext ==
  \/ \E args \in InfoArgs : main(args)
  \/ Return
  \/ ShowNext
  \/ \E rpeInput \in PromptInputs : ChooseDone("", rpeInput)
  \/ ChooseSkip
  \/ ChooseSkipDailies
  \/ ChooseQuit

SpecDispatch == Init /\ [][DispatchNext]_vars

\* ------------------------------------------------------------------ clear
\* movodoro clear, with the answer typed at the confirmation prompt.  The
\* directory and the saved snack as they were before the run are kept with
\* the output.
ClearAnswers == {"yes", "y", "Yes", "Y", "no", ""}

Cleared(answer, total, err, confirmed) ==
  [cmd |-> "clear", answer |-> answer, total |-> total, err |-> err,
   confirmed |-> confirmed, before |-> logs, saved |-> current, at |-> now]

handleClear(answer) ==
  /\ last = NoOutput
  /\ LET stats == GetTodayStatsDaily
         input == ToLower(answer)
     IN  IF stats.err # ""
         THEN /\ last' = Cleared(answer, 0, stats.err, FALSE)
              /\ logs' = logs
         ELSE IF stats.TotalMovos = 0
         THEN /\ last' = Cleared(answer, 0, "", FALSE)
              /\ logs' = logs
         ELSE IF input # "yes" /\ input # "y"
         THEN /\ last' = Cleared(answer, stats.TotalMovos, "", FALSE)
              /\ logs' = logs
         ELSE /\ last' = Cleared(answer, stats.TotalMovos, ClearTodayLog.err, TRUE)
              /\ logs' = ClearTodayLog.logs
  /\ UNCHANGED <<snacks, now, advances, current>>

ClearNext ==
  \/ \E answer \in ClearAnswers : handleClear(answer)
  \/ Return
  \/ \E arg \in DoneArgs, rpeInput \in PromptInputs : handleDone(arg, "", rpeInput)
  \/ \E arg \in DoneArgs : handleSkip(arg)
  \/ \E step \in AdvanceSteps : Advance(step)

SpecClear == Init /\ [][ClearNext]_vars

\* ------------------------------------------- done and skip at the terminal
\* handleDone and handleSkip with what they print: the error of a failed
\* run (exit code 1) or the confirmation.  The command line, the answers,
\* and the directory and the saved snack as they were before the run are
\* kept with the output.
Marked(cmd, arg, durationInput, rpeInput, err) ==
  [cmd |-> cmd, arg |-> arg, durationInput |-> durationInput,
   rpeInput |-> rpeInput, err |-> err, before |-> logs, saved |-> current,
   at |-> now]

\* the answers to the duration prompt and to the RPE prompt
MarkAnswers ==
  << <<"", "">>, <<Num(7), Txt("abc")>>, <<Txt("abc"), "">>, <<"", Num(7)>> >>

DoneAtTerminal(arg, durationInput, rpeInput) ==
  /\ last = NoOutput
  /\ LET code == TargetCode(arg)
         snack == FindSnack(snacks, code)
     IN  IF arg = NoArg /\ current = NoCurrent
         THEN /\ last' = Marked("done", arg, durationInput, rpeInput, "NoCurrent")
              /\ logs' = logs
         ELSE IF snack.FullCode = NoSnack
         THEN /\ last' = Marked("done", arg, durationInput, rpeInput, "NotFound")
              /\ logs' = logs
         ELSE LET entry == [Timestamp |-> now, Code |-> code, Status |-> "done",
                            Duration |-> PromptValue(durationInput,
                                                     GetDefaultDuration(snack)),
                            RPE |-> PromptValue(rpeInput, snack.EffectiveRPE),
                            Subset |-> ""]
              IN  /\ EntriesWritten < MaxLog
                  /\ logs' = AppendTodayLog(entry)
                  /\ last' = Marked("done", arg, durationInput, rpeInput, "")
  /\ UNCHANGED <<snacks, now, advances, current>>

SkipAtTerminal(arg) ==
  /\ last = NoOutput
  /\ LET code == TargetCode(arg)
         snack == FindSnack(snacks, code)
     IN  IF arg = NoArg /\ current = NoCurrent
         THEN /\ last' = Marked("skip", arg, "", "", "NoCurrent")
              /\ logs' = logs
         ELSE IF snack.FullCode = NoSnack
         THEN /\ last' = Marked("skip", arg, "", "", "NotFound")
              /\ logs' = logs
         ELSE LET entry == [Timestamp |-> now, Code |-> code, Status |-> "skip",
                            Duration |-> 0, RPE |-> 0, Subset |-> ""]
              IN  /\ EntriesWritten < MaxLog
                  /\ logs' = AppendTodayLog(entry)
                  /\ last' = Marked("skip", arg, "", "", "")
  /\ UNCHANGED <<snacks, now, advances, current>>

MarkNext ==
  \/ \E arg \in DoneArgs, k \in 1..Len(MarkAnswers) :
       DoneAtTerminal(arg, MarkAnswers[k][1], MarkAnswers[k][2])
  \/ \E arg \in DoneArgs : SkipAtTerminal(arg)
  \/ Return
  \/ handleGet(NoFilters)
  \/ Exit
  \/ \E step \in AdvanceSteps : Advance(step)

SpecMark == Init /\ [][MarkNext]_vars

\* ------------------------------------------------- a log with bad records
\* LoadDailyLog on a file of today that holds, after the header or without
\* one, up to MaxRecords records: well-formed ones, records with a
\* timestamp, a duration or an RPE that does not parse, and a record of
\* three fields.
GoodRecords ==
  { << Num(0), Txt("TB-box-breath"), Txt("done"), Num(4), Num(1), Txt("") >>,
    << Num(1), Txt("TS-plank"), Txt("skip"), Num(0), Num(0), Txt("core") >> }

BadRecords ==
  { << Txt("bad-timestamp"), Txt("TS-plank"), Txt("done"), Num(8), Num(7), Txt("") >>,
    << Num(1), Txt("TS-plank"), Txt("done"), Txt("abc"), Num(7), Txt("") >>,
    << Num(1), Txt("TS-plank"), Txt("done"), Num(8), Txt("hard"), Txt("") >>,
    << Num(1), Txt("TS-plank"), Txt("done") >> }

RECURSIVE RecordLists(_)
RecordLists(n) ==
  IF n = 0 THEN { <<>> }
  ELSE RecordLists(n - 1)
         \cup { Append(l, r) : l \in { x \in RecordLists(n - 1) : Len(x) = n - 1 },
                               r \in GoodRecords \cup BadRecords }

ParseInit ==
  /\ snacks = Catalog
  /\ \E body \in RecordLists(MaxRecords), head \in { <<>>, <<Header>> } :
       logs = [d \in {0} |-> head \o body]
  /\ now = 0
  /\ advances = 0
  /\ current = NoCurrent
  /\ last = NoOutput

LoadToday ==
  /\ last = NoOutput
  /\ last' = [cmd |-> "load", err |-> LoadDailyLog(Today).err,
              entries |-> LoadDailyLog(Today).entries]
  /\ UNCHANGED <<snacks, logs, now, advances, current>>

ParseNext == LoadToday

SpecParse == ParseInit /\ [][ParseNext]_vars

\* --------------------------------------------------------------- everyday
\* movodoro everyday: one line with a mark per snack that has a
\* min_per_day, and the summary line.  EverydayCatalog has a snack that is
\* due twice a day.
EverydayCatalog ==
  << Movo("TB-box-breath", "TB", 3, 5, 1, 3, 2, 10, <<"breathx", "Calm">>),
     Movo("TS-pushups",    "TS", 3, 5, 5, 0, 0, 15, <<"strengthx">>),
     Movo("TS-plank",      "TS", 6, 10, 7, 1, 1, 10, <<"strengthx", "corex">>) >>

EverydayCatalogs == {Catalog, EverydayCatalog}

EverydayInit ==
  /\ snacks \in EverydayCatalogs
  /\ logs = <<>>
  /\ now = 0
  /\ advances = 0
  /\ current = NoCurrent
  /\ last = NoOutput

\* completedToday[code] of handleEveryday, counted over stats.CompletedSnacks
CompletedInStats(stats, code) ==
  Len(SelectSeq(stats.CompletedSnacks, LAMBDA entry : entry.Code = code))

EverydayReport(stats, everydayMovos) ==
  [cmd |-> "everyday", err |-> "",
   lines |-> [k \in 1..Len(everydayMovos) |->
                [code |-> everydayMovos[k].FullCode,
                 count |-> CompletedInStats(stats, everydayMovos[k].FullCode),
                 status |-> IF CompletedInStats(stats, everydayMovos[k].FullCode)
                                 >= everydayMovos[k].MinPerDay
                            THEN "completed" ELSE "open"]],
   completed |-> Len(SelectSeq(everydayMovos, LAMBDA snack :
                                 CompletedInStats(stats, snack.FullCode) > 0)),
   total |-> Len(everydayMovos)]

handleEveryday ==
  /\ last = NoOutput
  /\ last' = IF Len(SelectSeq(snacks, LAMBDA snack : snack.MinPerDay > 0)) = 0
             THEN [cmd |-> "everyday", err |-> "NoEveryday", lines |-> <<>>,
                   completed |-> 0, total |-> 0]
             ELSE IF GetTodayStatsDaily.err # ""
             THEN [cmd |-> "everyday", err |-> GetTodayStatsDaily.err,
                   lines |-> <<>>, completed |-> 0, total |-> 0]
             ELSE EverydayReport(GetTodayStatsDaily,
                                 SelectSeq(snacks, LAMBDA snack : snack.MinPerDay > 0))
  /\ UNCHANGED <<snacks, logs, now, advances, current>>

EverydayNext ==
  \/ handleEveryday
  \/ Return
  \/ \E arg \in DoneArgs, rpeInput \in PromptInputs : handleDone(arg, "", rpeInput)
  \/ \E arg \in DoneArgs : handleSkip(arg)
  \/ \E step \in AdvanceSteps : Advance(step)

SpecEveryday == EverydayInit /\ [][EverydayNext]_vars

\* ------------------------------------------------------ default duration
\* GetDefaultDuration on a snack of every duration range up to MaxDuration,
\* as the duration prompt of done shows it.
DurationInit ==
  /\ \E dmin \in 1..MaxDuration, dmax \in 1..MaxDuration :
       /\ dmin <= dmax
       /\ snacks = << Movo("TS-plank", "TS", dmin, dmax, 7, 1, 1, 10,
                           <<"strengthx", "corex">>) >>
  /\ logs = <<>>
  /\ now = 0
  /\ advances = 0
  /\ current = NoCurrent
  /\ last = NoOutput

DefaultDurationShown ==
  /\ last = NoOutput
  /\ last' = [cmd |-> "duration", default |-> GetDefaultDuration(snacks[1])]
  /\ UNCHANGED <<snacks, logs, now, advances, current>>

DurationNext ==
  \/ DefaultDurationShown
  \/ Return

SpecDuration == DurationInit /\ [][DurationNext]_vars

\* ------------------------------------------- appends with given timestamps
\* AppendTodayLog called, as the tests call it, with an entry whose
\* timestamp the caller chose: the record goes to the file of the current
\* day whatever the timestamp says.
Stamps == {0, 1, TicksPerDay + 1}

StampAppend(code, status, stamp) ==
  /\ EntriesWritten < MaxLog
  /\ logs' = AppendTodayLog([Timestamp |-> stamp, Code |-> code,
                             Status |-> status, Duration |-> 4, RPE |-> 1,
                             Subset |-> ""])
  /\ UNCHANGED <<snacks, now, advances, current, last>>

StampNext ==
  \/ \E code \in {"TB-box-breath", "TS-plank"}, status \in {"done", "skip"},
        stamp \in Stamps : StampAppend(code, status, stamp)
  \/ \E step \in AdvanceSteps : Advance(step)

SpecStamps == Init /\ [][StampNext]_vars

\* ------------------------------------------------- low-intensity requests
\* A catalog with a snack of intensity 2, `movodoro get --max-rpe N`, and
\* every integer answer strconv.Atoi accepts at the RPE prompt, a negative
\* one too.
RecoveryCatalog ==
  << Movo("TB-box-breath", "TB", 3, 5, 1, 0, 0, 10, <<"breathx", "Calm">>),
     Movo("TS-pushups",    "TS", 3, 5, 2, 0, 0, 15, <<"strengthx">>),
     Movo("TS-plank",      "TS", 6, 10, 7, 0, 0, 10, <<"strengthx", "corex">>) >>

RecoveryFlags ==
  { NoFilters,
    [NoFilters EXCEPT !.MaxRPE = 1],
    [NoFilters EXCEPT !.MaxRPE = 2],
    [NoFilters EXCEPT !.MaxRPE = 5] }

RecoveryInputs == {"", Num(30), Num(0 - 30), Txt("hard")}

RecoveryInit ==
  /\ snacks = RecoveryCatalog
  /\ logs = <<>>
  /\ now = 0
  /\ advances = 0
  /\ current = NoCurrent
  /\ last = NoOutput

RecoveryNext ==
  \/ \E flags \in RecoveryFlags : handleGet(flags)
  \/ \E arg \in DoneArgs, rpeInput \in RecoveryInputs : handleDone(arg, "", rpeInput)
  \/ \E arg \in DoneArgs : handleSkip(arg)
  \/ Exit

SpecRecovery == RecoveryInit /\ [][RecoveryNext]_vars

\* ------------------------------------------------- the same call run twice
\* `movodoro get` run twice on one ledger and clock, the random source
\* replaced by one that returns the same value r in both runs.
TwinFlags ==
  { NoFilters,
    [NoFilters EXCEPT !.SkipMinimums = TRUE],
    [NoFilters EXCEPT !.MaxRPE = 5] }

\* one run with the draw fixed to r: what it prints and what it saves
FixedRun(filters, r) ==
  LET st == SelectStages(snacks, filters, maxDailyRPEDefault)
      code == IF st.err # "" THEN NoSnack
              ELSE weightedRandomSelect(st.weighted, r).FullCode
  IN  [out |-> GetOutput(filters, st, code),
       saved |-> IF st.err = "" THEN code ELSE current,
       draws |-> Draws(st.weighted)]

TwinFirst(flags) ==
  /\ last = NoOutput
  /\ \E r \in FixedRun(flags, 0).draws :
       LET run == FixedRun(flags, r)
       IN  /\ last' = [cmd |-> "twin", pc |-> "first", r |-> r,
                       first |-> run.out, second |-> NoOutput]
           /\ current' = run.saved
  /\ UNCHANGED <<snacks, logs, now, advances>>

TwinSecond ==
  /\ last.cmd = "twin"
  /\ last.pc = "first"
  /\ LET run == FixedRun(last.first.asked, last.r)
     IN  /\ last' = [last EXCEPT !.pc = "second", !.second = run.out]
         /\ current' = run.saved
  /\ UNCHANGED <<snacks, logs, now, advances>>

TwinEnd ==
  /\ last.cmd = "twin"
  /\ last.pc = "second"
  /\ last' = NoOutput
  /\ UNCHANGED <<snacks, logs, now, advances, current>>

TwinNext ==
  \/ \E flags \in TwinFlags : TwinFirst(flags)
  \/ TwinSecond
  \/ TwinEnd
  \/ \E arg \in DoneArgs, rpeInput \in PromptInputs : handleDone(arg, "", rpeInput)
  \/ \E arg \in DoneArgs : handleSkip(arg)
  \/ \E step \in AdvanceSteps : Advance(step)

SpecTwin == Init /\ [][TwinNext]_vars

\* ------------------------------------------------------ the catalog loaded
\* A category file as yaml.Unmarshal gives it: a key left out is the zero
\* value, rpe is a pointer (<<>> for nil).  Weights are in tenths.
LoadWeights == {0, 5, 10, 15, 20}

CategoryFiles ==
  {[Code |-> "TS", Weight |-> cw, DefaultRPE |-> dr, Tags |-> <<"strengthx">>,
    Snacks |-> << [Code |-> "pushups", DurationMin |-> 3, DurationMax |-> 5,
                   RPE |-> rpe, MaxPerDay |-> 0, MinPerDay |-> 0,
                   Weight |-> w, Tags |-> <<"corex">>] >>] :
     cw \in LoadWeights, dr \in {0, 4}, w \in LoadWeights,
     rpe \in {<<>>, <<0>>, <<7>>}}

\* the computed fields of one snack of a category
ResolveSnack(category, snack) ==
  Movo(category.Code \o "-" \o snack.Code, category.Code,
       snack.DurationMin, snack.DurationMax,
       IF snack.RPE # <<>> THEN snack.RPE[1] ELSE category.DefaultRPE,
       snack.MaxPerDay, snack.MinPerDay,
       IF snack.Weight = 10 /\ category.Weight # 10
       THEN category.Weight ELSE snack.Weight,
       category.Tags \o snack.Tags)

LoadSnacks(files) ==
  FlattenSeq([k \in 1..Len(files) |->
                [i \in 1..Len(files[k].Snacks) |->
                   ResolveSnack(files[k], files[k].Snacks[i])]])

\* a command starts: the files of the movos directory are loaded
LoadCatalog(files) ==
  /\ snacks' = LoadSnacks(files)
  /\ last' = [cmd |-> "load", files |-> files]
  /\ UNCHANGED <<logs, now, advances, current>>

LoadNext == \E category \in CategoryFiles : LoadCatalog(<<category>>)

SpecLoad == Init /\ [][LoadNext]_vars

\* ------------------------------------------------- the store written to
\* A caller of the history store: AppendTodayLog with entries of its own.
\* `last` keeps what the caller appended on last.day.
LedgerEntries ==
  [Code : {"TB-box-breath", "TS-pushups"}, Status : {"done", "skip"},
   Duration : {0, 5}, RPE : {7}, Subset : {"", "recovery"}]

AppendedToday == IF last.day = Today THEN last.appended ELSE <<>>

LedgerInit ==
  /\ snacks = Catalog
  /\ logs = <<>>
  /\ now = 0
  /\ advances = 0
  /\ current = NoCurrent
  /\ last = [cmd |-> "append", day |-> 0, appended |-> <<>>]

LedgerAppend(fields) ==
  /\ EntriesWritten < MaxLog
  /\ LET entry == [Timestamp |-> now, Code |-> fields.Code,
                   Status |-> fields.Status, Duration |-> fields.Duration,
                   RPE |-> fields.RPE, Subset |-> fields.Subset]
     IN  /\ logs' = AppendTodayLog(entry)
         /\ last' = [cmd |-> "append", day |-> Today,
                     appended |-> Append(AppendedToday, entry)]
  /\ UNCHANGED <<snacks, now, advances, current>>

LedgerAdvance(step) ==
  /\ advances < MaxAdvances
  /\ now' = now + step
  /\ advances' = advances + 1
  /\ UNCHANGED <<snacks, logs, current, last>>

LedgerNext ==
  \/ \E fields \in LedgerEntries : LedgerAppend(fields)
  \/ \E step \in AdvanceSteps : LedgerAdvance(step)

SpecLedger == LedgerInit /\ [][LedgerNext]_vars

\* ------------------------------------------- a log directory found on disk
\* The commands started on a log directory that already holds files: a past
\* day and today, each one absent, a log the program wrote, or that log
\* with a last line cut short (fewer fields), which csv.Reader rejects.
WrittenLog(t, code, duration, rpe) ==
  << Header,
     << Num(t), Txt(code), Txt("done"), Num(duration), Num(rpe), Txt("") >> >>

CutShort(file, t) == file \o << << Num(t), Txt("TS-plank") >> >>

StoreNow == recencyDays * TicksPerDay

PastLogs ==
  { <<>>,
    WrittenLog(0, "TS-plank", 8, 7),
    CutShort(WrittenLog(0, "TS-plank", 8, 7), 1) }

TodayLogs ==
  { <<>>,
    WrittenLog(StoreNow, "TB-box-breath", 4, 1),
    CutShort(WrittenLog(StoreNow, "TB-box-breath", 4, 1), StoreNow) }

LogDirectory(past, today) ==
  [d \in (IF past = <<>> THEN {} ELSE {0})
          \cup (IF today = <<>> THEN {} ELSE {DayOf(StoreNow)}) |->
     IF d = 0 THEN past ELSE today]

StoreInit ==
  /\ snacks = Catalog
  /\ \E past \in PastLogs, today \in TodayLogs : logs = LogDirectory(past, today)
  /\ now = StoreNow
  /\ advances = 0
  /\ current = NoCurrent
  /\ last = NoOutput

StoreNext ==
  \/ \E flags \in GetFlags : handleGet(flags)
  \/ \E arg \in DoneArgs, rpeInput \in PromptInputs : handleDone(arg, "", rpeInput)
  \/ \E arg \in DoneArgs : handleSkip(arg)
  \/ Exit

SpecStore == StoreInit /\ [][StoreNext]_vars

\* ------------------------------------------ a call racing with another run
\* SelectSnack reads the log files anew in every stage.  Here one call runs
\* stage by stage (a step ends before the next stage opens today's file)
\* while another run of the program completes `movodoro done CODE`.
ItemsOf(codes) == [i \in 1..Len(codes) |-> FindSnack(snacks, codes[i])]

WeightsOf(weighted) ==
  [i \in 1..Len(weighted) |->
     [code |-> weighted[i].snack.FullCode, weight |-> weighted[i].weight]]

\* what one uninterrupted call on the present ledger returns
OutcomeNow(filters) ==
  LET st == SelectStages(snacks, filters, maxDailyRPEDefault)
  IN  [err |-> st.err, weighted |-> WeightsOf(st.weighted)]

\* GetTodayStatsDaily, the recovery override, filterSnacks and the subset
StartSelect(flags) ==
  /\ last = NoOutput
  /\ LET filters == [flags EXCEPT !.Category = ToUpper(flags.Category)]
         eff == EffectiveFilters(filters, maxDailyRPEDefault)
         sub == filterBySubset(filterSnacks(snacks, eff), eff.Subset)
         call == [cmd |-> "select", asked |-> filters, filters |-> eff,
                  candidates |-> CodesOf(sub.items), tier |-> <<>>,
                  pool |-> <<>>, weighted |-> <<>>, raced |-> FALSE,
                  outcomes |-> {OutcomeNow(filters)}]
     IN  last' = IF GetTodayStatsDaily.err # ""
                 THEN call @@ [pc |-> "done", err |-> GetTodayStatsDaily.err]
                 ELSE IF sub.err # ""
                 THEN call @@ [pc |-> "done", err |-> sub.err]
                 ELSE IF Len(sub.items) = 0
                 THEN call @@ [pc |-> "done", err |-> "NoMatch"]
                 ELSE call @@ [pc |-> "priority", err |-> ""]
  /\ UNCHANGED <<snacks, logs, now, advances, current>>

\* filterToIncompleteMinimums on the candidates
PriorityStep ==
  /\ last.cmd = "select"
  /\ last.pc = "priority"
  /\ last' = [last EXCEPT
                !.tier = CodesOf(PriorityTier(ItemsOf(last.candidates), last.filters)),
                !.pc = "frequency",
                !.outcomes = @ \cup {OutcomeNow(last.asked)}]
  /\ UNCHANGED <<snacks, logs, now, advances, current>>

\* filterByFrequency, and the empty check after it
FrequencyStep ==
  /\ last.cmd = "select"
  /\ last.pc = "frequency"
  /\ LET pool == filterByFrequency(ItemsOf(last.tier))
     IN  last' = [last EXCEPT
                    !.pool = CodesOf(pool),
                    !.pc = IF Len(pool) = 0 THEN "done" ELSE "weigh",
                    !.err = IF Len(pool) = 0 THEN "ExhaustedToday" ELSE "",
                    !.outcomes = @ \cup {OutcomeNow(last.asked)}]
  /\ UNCHANGED <<snacks, logs, now, advances, current>>

\* calculateWeight for every snack of the pool
WeighStep ==
  /\ last.cmd = "select"
  /\ last.pc = "weigh"
  /\ last' = [last EXCEPT
                !.weighted = WeightsOf(Weigh(ItemsOf(last.pool))),
                !.pc = "done",
                !.outcomes = @ \cup {OutcomeNow(last.asked)}]
  /\ UNCHANGED <<snacks, logs, now, advances, current>>

\* the call returned and its process ended
FinishSelect ==
  /\ last.cmd = "select"
  /\ last.pc = "done"
  /\ last' = NoOutput
  /\ UNCHANGED <<snacks, logs, now, advances, current>>

\* another run of the program: movodoro done CODE, answers left empty; at
\* most one such run completes while a call is under way
OtherDone(code) ==
  /\ EntriesWritten < MaxLog
  /\ last.cmd = "select" => ~last.raced
  /\ LET snack == FindSnack(snacks, code)
         entry == [Timestamp |-> now, Code |-> code, Status |-> "done",
                   Duration |-> GetDefaultDuration(snack),
                   RPE |-> snack.EffectiveRPE, Subset |-> ""]
     IN  logs' = AppendTodayLog(entry)
  /\ last' = IF last.cmd = "select" THEN [last EXCEPT !.raced = TRUE] ELSE last
  /\ UNCHANGED <<snacks, now, advances, current>>

RaceNext ==
  \/ \E flags \in GetFlags : StartSelect(flags)
  \/ PriorityStep
  \/ FrequencyStep
  \/ WeighStep
  \/ FinishSelect
  \/ \E code \in Codes : OtherDone(code)

SpecRace == Init /\ [][RaceNext]_vars

\* ------------------------------------------------------ the draw on its own
\* weightedRandomSelect called on a weighted list, with the value r that
\* rand.Float64() * totalWeight takes (here a multiple of half a unit).
DrawWeights == {10, 20}

DrawLists ==
  {w \in UNION {[1..n -> [snack : Range(Catalog), weight : DrawWeights]] : n \in 1..3} :
     \A i, j \in 1..Len(w) : i # j => w[i].snack.FullCode # w[j].snack.FullCode}

DrawValues(weighted) == {r \in 0..(TotalWeight(weighted) - 1) : r % 5 = 0}

ApplyDraw(weighted, r) ==
  /\ last = NoOutput
  /\ last' = [cmd |-> "draw",
              weighted |-> [i \in 1..Len(weighted) |->
                              [code |-> weighted[i].snack.FullCode,
                               weight |-> weighted[i].weight]],
              r |-> r,
              snack |-> weightedRandomSelect(weighted, r).FullCode]
  /\ UNCHANGED <<snacks, logs, now, advances, current>>

DrawNext == \E weighted \in DrawLists : \E r \in DrawValues(weighted) : ApplyDraw(weighted, r)

SpecDraw == Init /\ [][DrawNext]_vars

\* ------------------------------------------------------ reading the ledger
\* The definitions below read the raw files directly, not through the
\* history store's functions.
TodayRecords == IF Today \in LogDays THEN Tail(logs[Today]) ELSE <<>>

CompletedToday(code) ==
  Cardinality({i \in 1..Len(TodayRecords) :
                 TodayRecords[i][2][2] = code /\ TodayRecords[i][3][2] = "done"})

CumulativeIntensity ==
  SumSeq([i \in 1..Len(TodayRecords) |->
            IF TodayRecords[i][3][2] = "done" THEN TodayRecords[i][5][2] ELSE 0])

\* timestamps of the completed records of a code, over all days
CompletionTimes(code) ==
  {logs[d][i][1][2] : <<d, i>> \in
     {x \in UNION {{<<dd, j>> : j \in 2..Len(logs[dd])} : dd \in LogDays} :
        logs[x[1]][x[2]][2][2] = code /\ logs[x[1]][x[2]][3][2] = "done"}}

Item(code) == FindSnack(snacks, code)

UnmetMinimum(code) ==
  Item(code).MinPerDay > 0 /\ CompletedToday(code) < Item(code).MinPerDay

AtDailyCap(code) ==
  Item(code).MaxPerDay > 0 /\ CompletedToday(code) >= Item(code).MaxPerDay

\* the codes that pass the constraint of a get call that sets only category,
\* intensity bounds and subset
MatchSet(f) ==
  {c \in Codes :
     /\ f.Category = "" \/ Item(c).CategoryCode = f.Category
     /\ f.MinRPE = 0 \/ Item(c).EffectiveRPE >= f.MinRPE
     /\ f.MaxRPE = 0 \/ Item(c).EffectiveRPE <= f.MaxRPE
     /\ f.Subset = "" \/ c \in Range(Subsets[f.Subset])}

GetRan == last.cmd = "get"

\* ------------------------------------------------------------------- claims

C2_RecoveryTrigger ==
  (GetRan /\ CumulativeIntensity >= maxDailyRPEDefault)
  => /\ last.recovery
     /\ last.err = "" => Item(last.snack).EffectiveRPE <= autoRecoveryMaxRPE
     /\ last.err # "" => last.snack = NoSnack
     /\ (\A c \in MatchSet([last.asked EXCEPT !.MaxRPE = 0]) :
           Item(c).EffectiveRPE > autoRecoveryMaxRPE) => last.err # ""

C2_Witness ==
  /\ GetRan
  /\ CumulativeIntensity = maxDailyRPEDefault
  /\ last.asked.MaxRPE = 5
  /\ last.err = ""
  /\ Item(last.snack).EffectiveRPE <= autoRecoveryMaxRPE

C4_EmptyPoolOutcomes ==
  (GetRan /\ last.err # "UnknownSubset") =>
    /\ last.err = "NoMatch" <=> MatchSet(last.filters) = {}
    /\ last.err = "ExhaustedToday" <=>
         /\ MatchSet(last.filters) # {}
         /\ \A c \in Range(last.tier) : AtDailyCap(c)
    /\ last.err = "ExhaustedToday" => last.tier # <<>>
    /\ last.err # "" <=> last.snack = NoSnack
    /\ last.err = "" => last.snack \in Range(last.pool)

C4_Witness ==
  /\ GetRan
  /\ last.err = "ExhaustedToday"
  /\ last.snack = NoSnack
  /\ last.candidates # <<>>

C4_WitnessNoMatch ==
  /\ GetRan
  /\ last.err = "NoMatch"
  /\ last.filtered # <<>>

C6_PipelineOrder ==
  GetRan =>
    /\ Range(last.tier) \subseteq MatchSet(last.filters)
    /\ last.err = "" => last.snack \in MatchSet(last.filters)
    /\ (\A c \in MatchSet(last.filters) : ~UnmetMinimum(c))
         => Range(last.tier) = MatchSet(last.filters)
    /\ last.recovery => last.filters.MaxRPE = autoRecoveryMaxRPE

C6_Witness ==
  /\ GetRan
  /\ ~last.asked.SkipMinimums
  /\ last.err = ""
  /\ \E c \in Codes \ MatchSet(last.filters) : UnmetMinimum(c)
  /\ \A c \in MatchSet(last.filters) : ~UnmetMinimum(c)
  /\ Range(last.tier) = MatchSet(last.filters)

FiltersRan == last.cmd = "filter"

\* the elements of seq that are in S, in the order of seq
RECURSIVE KeepIn(_, _)
KeepIn(seq, S) ==
  IF seq = <<>> THEN <<>>
  ELSE IF Head(seq) \in S THEN <<Head(seq)>> \o KeepIn(Tail(seq), S)
       ELSE KeepIn(Tail(seq), S)

\* C7. Subset filter: filterBySubset is the identity for the empty name,
\* fails with UnknownSubset for a name the subsets configuration does not
\* define, and otherwise returns exactly the input items whose full code is
\* in the allow-list, in input order; an empty result comes without error;
\* after other filters the result is the intersection.
C7_SubsetFilter ==
  FiltersRan =>
    LET name == last.filters.Subset
        out  == last.subset
    IN  /\ name = "" => out = [err |-> "", items |-> last.filtered]
        /\ (name # "" /\ name \notin DOMAIN Subsets) => out.err = "UnknownSubset"
        /\ name \in DOMAIN Subsets =>
             /\ out.err = ""
             /\ out.items = KeepIn(last.filtered, Range(Subsets[name]))
             /\ Range(out.items) =
                  Range(last.direct.items) \cap Range(last.filtered)

C7_Witness ==
  /\ FiltersRan
  /\ last.filters.Subset = "recovery"
  /\ last.filters.MaxRPE = 5
  /\ Len(last.filtered) = 2
  /\ last.subset = [err |-> "", items |-> <<"TB-box-breath", "TS-pushups">>]

C7_WitnessEmpty ==
  /\ FiltersRan
  /\ last.filters.Subset = "recovery"
  /\ last.filtered # <<>>
  /\ last.subset = [err |-> "", items |-> <<>>]

\* the duration clause of C8: a value lies in both intervals, an unset (0)
\* upper bound leaving the requested interval open
DurationIntervalsIntersect(item, f) ==
  \E d \in item.DurationMin..item.DurationMax :
    /\ f.MinDuration <= d
    /\ f.MaxDuration = 0 \/ d <= f.MaxDuration

MeetsConstraint(item, f) ==
  /\ f.Category = "" \/ item.CategoryCode = f.Category
  /\ \A k \in 1..Len(f.Tags) :
       \E j \in 1..Len(item.AllTags) : ToLower(item.AllTags[j]) = ToLower(f.Tags[k])
  /\ f.MinRPE = 0 \/ item.EffectiveRPE >= f.MinRPE
  /\ f.MaxRPE = 0 \/ item.EffectiveRPE <= f.MaxRPE
  /\ IF f.ExactDuration > 0
     THEN item.DurationMin <= f.ExactDuration /\ f.ExactDuration <= item.DurationMax
     ELSE DurationIntervalsIntersect(item, f)

\* C8. Constraint filter membership: filterSnacks returns, in catalog order,
\* exactly the items whose category, tags (case-insensitive), intensity and
\* duration meet the constraint; with ExactDuration > 0 the duration test is
\* DurationMin <= ExactDuration <= DurationMax, otherwise the requested and
\* the item's duration intervals intersect.
C8_ConstraintFilterMembership ==
  FiltersRan =>
    last.filtered =
      KeepIn(CodesOf(snacks),
             {c \in Range(CodesOf(snacks)) : MeetsConstraint(Item(c), last.filters)})

\* the three factors of C9, read from the raw ledger
MinimumFactor(item) == IF UnmetMinimum(item.FullCode) THEN 10 ELSE 1

NeverCompleted(code) == CompletionTimes(code) = {}

MostRecentCompletion(code) ==
  CHOOSE t \in CompletionTimes(code) : \A u \in CompletionTimes(code) : u <= t

NeverDoneFactor(item) == IF NeverCompleted(item.FullCode) THEN 3 ELSE 1

RecencyFactor(item) ==
  IF /\ ~NeverCompleted(item.FullCode)
     /\ now - MostRecentCompletion(item.FullCode) >= 7 * TicksPerDay
  THEN 2 ELSE 1

ExpectedWeight(item) ==
  item.Weight * MinimumFactor(item) * NeverDoneFactor(item) * RecencyFactor(item)

\* C9. Weight formula: calculateWeight(item) = baseWeight x (10 iff
\* minPerDay > 0 and today's completed-count < minPerDay) x (3 iff no
\* completed record in all-time history) x (2 iff there is a completed
\* record and the most recent one is >= 7 days old); skip records change
\* none of the factors, and the weight is > 0 for a positive base weight.
C9_WeightFormula ==
  /\ \A i \in 1..Len(snacks) :
       /\ calculateWeight(snacks[i]) = ExpectedWeight(snacks[i])
       /\ snacks[i].Weight > 0 => calculateWeight(snacks[i]) > 0
  /\ GetRan =>
       \A k \in 1..Len(last.weighted) :
         last.weighted[k].weight = ExpectedWeight(Item(last.weighted[k].code))

C9_Witness ==
  /\ GetRan
  /\ \E k \in 1..Len(last.weighted) :
       LET item == Item(last.weighted[k].code)
       IN  /\ last.weighted[k].weight = item.Weight * 2
           /\ ~NeverCompleted(item.FullCode)
  /\ \E k \in 1..Len(last.weighted) :
       LET item == Item(last.weighted[k].code)
       IN  /\ last.weighted[k].weight = item.Weight * 10 * 3
           /\ \E i \in 1..Len(TodayRecords) :
                /\ TodayRecords[i][2][2] = item.FullCode
                /\ TodayRecords[i][3][2] = "skip"

\* C10 as stated: some reachable history gives an item the min-per-day, the
\* never-done and the recency boost together, weight = baseWeight x 10 x 3 x 2.
C10_AllThreeBoosts ==
  <>(\E i \in 1..Len(snacks) :
       calculateWeight(snacks[i]) = snacks[i].Weight * 10 * 3 * 2)

\* C10, amended. The min-per-day boost combines with either of the other
\* two, but the never-done and the recency boost never apply together: the
\* weight is baseWeight times one of 1, 2, 3, 10, 20, 30, never x 60.
C10_AtMostTwoBoosts ==
  \A i \in 1..Len(snacks) :
    /\ calculateWeight(snacks[i]) \in
         {snacks[i].Weight * m : m \in {1, 2, 3, 10, 20, 30}}
    /\ ~(NeverDoneFactor(snacks[i]) = 3 /\ RecencyFactor(snacks[i]) = 2)

C10_Witness ==
  /\ GetRan
  /\ \E k \in 1..Len(last.weighted) :
       last.weighted[k].weight = Item(last.weighted[k].code).Weight * 10 * 2
  /\ \E k \in 1..Len(last.weighted) :
       last.weighted[k].weight = Item(last.weighted[k].code).Weight * 10 * 3

\* C11. Weight monotonicity: of two items with equal base weight and equal
\* min-per-day boost state, one never completed and one with a completed
\* record (however old), the never-completed one has the greater weight.
C11_WeightMonotonicity ==
  \A i, j \in 1..Len(snacks) :
    ( /\ snacks[i].Weight = snacks[j].Weight
      /\ MinimumFactor(snacks[i]) = MinimumFactor(snacks[j])
      /\ NeverCompleted(snacks[i].FullCode)
      /\ ~NeverCompleted(snacks[j].FullCode) )
    => calculateWeight(snacks[i]) > calculateWeight(snacks[j])

C11_Witness ==
  /\ GetRan
  /\ \E a, b \in 1..Len(last.weighted) :
       /\ Item(last.weighted[a].code).Weight = Item(last.weighted[b].code).Weight
       /\ MinimumFactor(Item(last.weighted[a].code))
            = MinimumFactor(Item(last.weighted[b].code))
       /\ NeverCompleted(last.weighted[a].code)
       /\ ~NeverCompleted(last.weighted[b].code)
       /\ RecencyFactor(Item(last.weighted[b].code)) = 2
       /\ last.weighted[a].weight > last.weighted[b].weight

DrawRan == last.cmd = "draw"

\* the running weight sum after the first i items of the drawn list
RunningSum(i) == SumSeq([k \in 1..i |-> last.weighted[k].weight])

\* C12. Weighted draw: for a non-empty weighted list and r in [0, total),
\* weightedRandomSelect returns the first item in iteration order whose
\* running weight sum exceeds r; the result is a member of the list, a
\* single candidate is always returned, and the last item is returned only
\* when no running sum qualifies.
C12_WeightedDraw ==
  DrawRan =>
    LET exceeding == {i \in 1..Len(last.weighted) : RunningSum(i) > last.r}
        first == CHOOSE i \in exceeding : \A j \in exceeding : i <= j
    IN  /\ \E i \in 1..Len(last.weighted) : last.weighted[i].code = last.snack
        /\ Len(last.weighted) = 1 => last.snack = last.weighted[1].code
        /\ exceeding # {} => last.snack = last.weighted[first].code
        /\ exceeding = {} => last.snack = last.weighted[Len(last.weighted)].code

\* the result of the call on display, computed again in the current state
OutputAgain ==
  GetOutput(last.asked, SelectStages(snacks, last.asked, maxDailyRPEDefault),
            last.snack)

C13_WitnessFailing ==
  /\ GetRan
  /\ last.err # ""
  /\ current # NoCurrent
  /\ EntriesWritten > 0

\* a partition that csv.Reader cannot read: the records differ in length
NotCSV(day) ==
  \E i \in 1..Len(logs[day]) : Len(logs[day][i]) # Len(logs[day][1])

\* C14. Store errors are never swallowed: when a History Store read made for
\* a SelectSnack call fails, on today's partition or on a past partition
\* read for the ever-completed / last-completed status, the call returns an
\* error and no item.
C14_StoreErrorsPropagate ==
  GetRan =>
    /\ (Today \in LogDays /\ NotCSV(Today))
         => (last.err = "StoreError" /\ last.snack = NoSnack)
    /\ (\E d \in LogDays \ {Today} : NotCSV(d))
         => (last.err # "" /\ last.snack = NoSnack)

\* the part of C14 the code keeps: a failing read of today's partition
C14_TodayErrorPropagates ==
  (GetRan /\ Today \in LogDays /\ NotCSV(Today))
    => (last.err = "StoreError" /\ last.snack = NoSnack)

\* C15. Snapshot consistency: the ledger reads of one SelectSnack call reflect
\* one ledger state; when another process appends a completion while the
\* call runs, the outcome (error or weighted candidate list) is the outcome
\* of the call on the ledger before or on the ledger after that append, so
\* the call does not fail with ExhaustedToday when a matching item is below
\* its cap in both.
C15_SnapshotConsistency ==
  (last.cmd = "select" /\ last.pc = "done")
    => [err |-> last.err, weighted |-> last.weighted] \in last.outcomes

\* C19. Skip dailies gets a non-daily snack: a selection made with the
\* daily-minimum priority skipped (after [x] in interactive mode, or with
\* the skip-minimums flag of get) is never an item with minPerDay > 0 whose
\* minimum is still unmet.
C19_SkipDailiesGetsNonDaily ==
  /\ (InSession("choice") /\ last.skipMinimums /\ ~last.resumed)
       => ~UnmetMinimum(last.shown)
  /\ (GetRan /\ last.asked.SkipMinimums /\ last.err = "")
       => ~UnmetMinimum(last.snack)

\* the step appends a skip record to today's file
SkipWritten ==
  /\ logs' # logs
  /\ LET file == logs'[Today] IN file[Len(file)][3] = Txt("skip")

\* what the store derives is what the completed records alone determine
DerivedFromCompleted ==
  /\ \A code \in Codes :
       /\ GetCountTodayDaily(code).done = CompletedToday(code)
       /\ HasEverBeenDoneDaily(code) = (CompletionTimes(code) # {})
       /\ HasEverBeenDoneDaily(code) => GetLastDoneDaily(code) \in CompletionTimes(code)
  /\ GetTodayStatsDaily.TotalRPE = CumulativeIntensity
  /\ CodesOf(filterToIncompleteMinimums(snacks))
       = CodesOf(SelectSeq(snacks, LAMBDA snack : UnmetMinimum(snack.FullCode)))

\* C16. Skip events are inert for selection: every skip record written by
\* the skip command or the interactive Skip carries duration 0 and
\* intensity 0, and the step that appends it changes neither any item's
\* completed-count of today, nor the cumulative intensity, nor any item's
\* completion times; the store derives its counts, its totals, the
\* last-completed status and the priority tier of unmet minimums from the
\* completed records alone, so a skipped item with an unmet minimum stays
\* in the priority tier.
C16_SkipInert ==
  /\ []DerivedFromCompleted
  /\ [][SkipWritten =>
          /\ LET file == logs'[Today]
             IN  file[Len(file)][4] = Num(0) /\ file[Len(file)][5] = Num(0)
          /\ \A code \in Codes :
               /\ CompletedToday(code)' = CompletedToday(code)
               /\ CompletionTimes(code)' = CompletionTimes(code)
          /\ CumulativeIntensity' = CumulativeIntensity]_vars

\* an item with an unmet minimum, skipped twice in the interactive session,
\* is selected again
C16_Witness ==
  /\ InSession("choice") /\ ~last.resumed
  /\ UnmetMinimum(last.shown)
  /\ GetCountTodayDaily(last.shown).skipped >= 2

\* a skip record written by the skip command
C16_WitnessCommand ==
  /\ last = NoOutput
  /\ \E code \in Codes :
       UnmetMinimum(code) /\ GetCountTodayDaily(code).skipped >= 1

\* the fields of an entry that the round trip is about (the timestamp is
\* written with the precision of a second)
EntryFields(e) ==
  [Code |-> e.Code, Status |-> e.Status,
   Duration |-> e.Duration, RPE |-> e.RPE, Subset |-> e.Subset]

\* C17. Append-only ledger round trip: LoadDailyLog for today returns
\* exactly the entries appended today, in append order, with the same code,
\* status, duration, intensity and subset label; an append adds one entry
\* at the end of today's file and alters, reorders or removes no earlier
\* record of today's or of any other day's file.
C17_AppendOnlyRoundTrip ==
  /\ [](LET loaded == LoadDailyLog(Today)
        IN  /\ loaded.err = ""
            /\ [i \in 1..Len(loaded.entries) |-> EntryFields(loaded.entries[i])]
                 = [i \in 1..Len(AppendedToday) |-> EntryFields(AppendedToday[i])])
  /\ [][logs' # logs =>
          /\ DOMAIN logs' = LogDays \cup {Today}
          /\ \A d \in LogDays \ {Today} : logs'[d] = logs[d]
          /\ IF Today \in LogDays
             THEN /\ Len(logs'[Today]) = Len(logs[Today]) + 1
                  /\ SubSeq(logs'[Today], 1, Len(logs[Today])) = logs[Today]
             ELSE /\ Len(logs'[Today]) = 2
                  /\ logs'[Today][1] = Header]_vars

\* two entries appended today and read back
C17_Witness ==
  /\ last.cmd = "append" /\ last.day = Today
  /\ Len(last.appended) >= 2
  /\ Len(LoadDailyLog(Today).entries) >= 2

\* the recorded durations of today's completed records
CumulativeDuration ==
  SumSeq([i \in 1..Len(TodayRecords) |->
            IF TodayRecords[i][3][2] = "done" THEN TodayRecords[i][4][2] ELSE 0])

\* C18. Derived daily budget: over today's ledger as the program wrote it,
\* GetTodayStatsDaily gives TotalRPE = the sum of the recorded intensity of
\* the completed records, TotalDuration = the sum of their recorded
\* duration, TotalMovos = the number of all records = completed + skipped;
\* it is computed from the file in every state, so also right after an
\* append.
C18_DerivedDailyBudget ==
  LET stats == GetTodayStatsDaily
  IN  /\ stats.err = ""
      /\ stats.TotalRPE = CumulativeIntensity
      /\ stats.TotalDuration = CumulativeDuration
      /\ stats.TotalMovos = Len(TodayRecords)
      /\ stats.TotalMovos = Len(stats.CompletedSnacks) + Len(stats.SkippedSnacks)

\* a completion with an entered intensity and a skip, both of today
C18_Witness ==
  /\ Len(GetTodayStatsDaily.CompletedSnacks) = 1
  /\ Len(GetTodayStatsDaily.SkippedSnacks) = 1
  /\ GetTodayStatsDaily.TotalRPE = 30
  /\ GetTodayStatsDaily.TotalDuration > 0

\* C20. Base weight resolution: the weight an item enters the selection
\* with is its own weight value multiplied by its category's weight, for
\* every combination of item weight and category weight (weights are in
\* tenths, so the product is in hundredths).
C20_BaseWeightResolution ==
  last.cmd = "load" =>
    \A i \in 1..Len(snacks) :
      snacks[i].Weight * 10 = last.files[1].Snacks[i].Weight * last.files[1].Weight

\* C21. The constraint filter is idempotent and side-effect-free: filtering
\* the output again with the same constraint gives the output, a repeated
\* call on the same list and constraint gives the same output, the output
\* is an order-preserving sub-list of the list, and the list is not
\* modified by the call.
C21_FilterIdempotent ==
  /\ [](FiltersRan =>
          LET once == filterSnacks(snacks, last.filters)
          IN  /\ filterSnacks(once, last.filters) = once
              /\ CodesOf(once) = last.filtered
              /\ CodesOf(once) = KeepIn(CodesOf(snacks), Range(CodesOf(once))))
  /\ [][last'.cmd = "filter" => snacks' = snacks]_vars

\* the filter kept some snacks, more than one, and dropped others
C21_Witness ==
  /\ FiltersRan
  /\ Len(last.filtered) >= 2
  /\ Len(last.filtered) < Len(snacks)

\* C22. Unset duration bounds are unbounded: in range-overlap mode with no
\* maximum given, no item is excluded for its duration unless its
\* DurationMax is below the given minimum; with no duration constraint at
\* all no item is excluded on duration.
C22_UnsetDurationUnbounded ==
  (FiltersRan /\ last.filters.ExactDuration = 0 /\ last.filters.MaxDuration = 0) =>
    \A code \in Range(CodesOf(snacks)) :
      ( /\ MeetsConstraint(Item(code), [last.filters EXCEPT !.MinDuration = 0])
        /\ Item(code).DurationMax >= last.filters.MinDuration )
        => code \in Range(last.filtered)

AppendedOne(status, code) ==
  LET old == IF Today \in LogDays THEN logs[Today] ELSE <<Header>>
      new == logs'[Today]
  IN  /\ DOMAIN logs' = LogDays \cup {Today}
      /\ \A d \in LogDays \ {Today} : logs'[d] = logs[d]
      /\ Len(new) = Len(old) + 1
      /\ SubSeq(new, 1, Len(old)) = old
      /\ new[Len(new)][2] = Txt(code)
      /\ new[Len(new)][3] = Txt(status)

SessionStages ==
  SelectStages(snacks, [NoFilters EXCEPT !.SkipMinimums = last.skipMinimums],
               maxDailyRPEDefault)

\* C25. Skip-dailies flag lifecycle in interactive mode: [x] on an item
\* with minPerDay > 0 appends nothing, clears the saved current item and
\* sets the flag; the selection made while the flag is set bypasses the
\* daily-minimum priority (its tier is the whole candidate list); a Skip
\* resets the flag, and a selection made with the flag reset returns an
\* item with an unmet minimum whenever a candidate (an item that passes the
\* filters of the call, the recovery ceiling included) has one; a new
\* session starts with the flag reset.
C25_SkipDailiesLifecycle ==
  /\ []((InSession("choice") /\ ~last.resumed) =>
          /\ last.shown \in Range(CodesOf(SessionStages.pool))
          /\ last.skipMinimums => SessionStages.tier = SessionStages.candidates
          /\ ( /\ ~last.skipMinimums
                /\ \E code \in Range(CodesOf(SessionStages.candidates)) :
                     UnmetMinimum(code) )
               => UnmetMinimum(last.shown))
  /\ [][ /\ ( /\ InSession("choice") /\ Item(last.shown).MinPerDay > 0
              /\ last'.cmd = "interactive" /\ logs' = logs )
              => /\ current' = NoCurrent
                 /\ last'.pc = "select" /\ last'.skipMinimums
         /\ (InSession("choice") /\ last'.cmd = "interactive" /\ logs' # logs)
              => ~last'.skipMinimums
         /\ (InSession("select") /\ last'.cmd = "interactive")
              => last'.skipMinimums = last.skipMinimums
         /\ (last = NoOutput /\ last'.cmd = "interactive")
              => ~last'.skipMinimums ]_vars

\* with the flag set the session shows an item without a minimum while a
\* daily minimum is still unmet
C25_Witness ==
  /\ InSession("choice") /\ ~last.resumed
  /\ last.skipMinimums
  /\ Item(last.shown).MinPerDay = 0
  /\ \E code \in Codes : UnmetMinimum(code)

\* after a Skip the flag is reset and an unmet daily is shown again
C25_WitnessReset ==
  /\ InSession("choice") /\ ~last.resumed
  /\ ~last.skipMinimums
  /\ UnmetMinimum(last.shown)
  /\ GetCountTodayDaily("TS-pushups").skipped > 0

\* C26. ExhaustedToday means the whole matching pool is capped: a call
\* without skip-priority returns ExhaustedToday only if every item that
\* passed the constraint and subset filters is at its daily cap, for every
\* catalog, one with minPerDay > maxPerDay > 0 included.
C26_ExhaustedMeansAllCapped ==
  (GetRan /\ ~last.asked.SkipMinimums /\ last.err = "ExhaustedToday") =>
    \A code \in Range(last.candidates) : AtDailyCap(code)

\* the constraint of the rounds as SelectSnack receives it
RoundAsked == [last.flags EXCEPT !.Category = ToUpper(last.flags.Category)]

\* a code that matches the constraint of the rounds has an unmet minimum
UnmetAmongMatching == \E code \in MatchSet(RoundAsked) : UnmetMinimum(code)

\* a code that passes the filters the call runs with, the recovery ceiling
\* included, has an unmet minimum
UnmetAmongCandidates ==
  \E code \in MatchSet(EffectiveFilters(RoundAsked, maxDailyRPEDefault)) :
    UnmetMinimum(code)

\* the completions still owed to the minimums of the items that match the
\* constraint of the rounds
Shortfall ==
  SumSeq([i \in 1..Len(snacks) |->
            IF /\ snacks[i].FullCode \in MatchSet(RoundAsked)
               /\ UnmetMinimum(snacks[i].FullCode)
            THEN snacks[i].MinPerDay - CompletedToday(snacks[i].FullCode)
            ELSE 0])

\* C27. Obligations are eventually discharged: in the rounds of get and
\* done with a fixed constraint, as long as an item that matches the
\* constraint has an unmet minimum the get does not fail and returns an
\* item with an unmet minimum (so after as many rounds as completions are
\* owed none is left).
C27_ObligationsDischarged ==
  /\ last.pc = "failed" => ~UnmetAmongMatching
  /\ (last.pc = "done" /\ UnmetAmongMatching) => UnmetMinimum(last.out.snack)

\* C27, amended: the same for the items that pass the filters the call
\* runs with (in recovery mode the ceiling of 2 on the intensity is one of
\* them): while one of them has an unmet minimum the get does not fail and
\* returns an item with an unmet minimum, and marking it done lowers the
\* completions owed by one, so those rounds are finitely many; once none of
\* them has an unmet minimum the priority tier is the whole candidate list
\* and items with minPerDay = 0 are eligible.
C27_DischargedAmongCandidates ==
  /\ [](last.pc = "failed" => ~UnmetAmongCandidates)
  /\ []((last.pc = "done" /\ UnmetAmongCandidates) => UnmetMinimum(last.out.snack))
  /\ []((last.pc = "done" /\ ~UnmetAmongCandidates)
          => last.out.tier = last.out.candidates)
  /\ [][(last.pc = "done" /\ logs' # logs) =>
          Shortfall' = Shortfall - (IF UnmetMinimum(last.out.snack) THEN 1 ELSE 0)]_vars

\* both minimums were discharged in two rounds and the next get returned
\* the item without a minimum
C27_Witness ==
  /\ last.cmd = "round" /\ last.pc = "done"
  /\ ~UnmetAmongMatching
  /\ CompletedToday("TB-box-breath") = 1 /\ CompletedToday("TS-plank") = 1
  /\ last.out.snack = "TS-pushups"

\* C28. A caller-supplied maximum intensity is never loosened: a call with
\* MaxRPE = m > 0 returns only items of effective intensity <= m, in
\* recovery mode too.
C28_MaxIntensityNeverLoosened ==
  (GetRan /\ last.asked.MaxRPE > 0 /\ last.err = "") =>
    Item(last.snack).EffectiveRPE <= last.asked.MaxRPE

\* the recorded intensity of the first k records of today, completed ones
\* only
IntensityUpTo(k) ==
  SumSeq([i \in 1..k |->
            IF TodayRecords[i][3][2] = "done" THEN TodayRecords[i][5][2] ELSE 0])

\* C29. Recovery mode is sticky within a day: once today's cumulative
\* intensity has reached the cap (after some record of today's log), every
\* later call of the day is in recovery mode, whatever was appended since.
C29_RecoverySticky ==
  ( /\ GetRan
    /\ \E k \in 1..Len(TodayRecords) : IntensityUpTo(k) >= maxDailyRPEDefault )
    => last.recovery

\* C30. Daily cap as a ledger invariant: today's completed-count of an item
\* with maxPerDay = N > 0 never exceeds N.
C30_DailyCapInvariant ==
  \A code \in Codes :
    Item(code).MaxPerDay > 0 => CompletedToday(code) <= Item(code).MaxPerDay

\* C31. Every item presented in an interactive session is one SelectSnack
\* could return on the current ledger: while it is displayed it is below its
\* daily cap and, if the day is in recovery mode, its intensity is at most
\* 2; a session that resumes the saved current item included.
C31_ShownIsSelectable ==
  InSession("choice") =>
    /\ ~AtDailyCap(last.shown)
    /\ CumulativeIntensity >= maxDailyRPEDefault =>
         Item(last.shown).EffectiveRPE <= autoRecoveryMaxRPE

\* the weight of the k-th entry of the draw without its min-per-day factor
UnboostedWeight(k) ==
  Item(last.weighted[k].code).Weight
    * NeverDoneFactor(Item(last.weighted[k].code))
    * RecencyFactor(Item(last.weighted[k].code))

CarriesMinimumBoost(k) == last.weighted[k].weight = 10 * UnboostedWeight(k)

\* C32. The min-per-day boost never changes relative odds unless priority
\* is skipped: in a SelectSnack call without skip-priority, either every
\* candidate that reaches the weighted draw carries the x10 boost, or none
\* of them does.
C32_BoostAllOrNone ==
  (GetRan /\ ~last.asked.SkipMinimums /\ last.err = "") =>
    \/ \A k \in 1..Len(last.weighted) : CarriesMinimumBoost(k)
    \/ \A k \in 1..Len(last.weighted) : ~CarriesMinimumBoost(k)

\* two boosted items in one draw
C32_Witness ==
  /\ GetRan /\ ~last.asked.SkipMinimums /\ last.err = ""
  /\ Len(last.weighted) >= 2
  /\ \A k \in 1..Len(last.weighted) : CarriesMinimumBoost(k)

\* a draw without boost among items one of which has a minimum
C32_WitnessNone ==
  /\ GetRan /\ ~last.asked.SkipMinimums /\ last.err = ""
  /\ Len(last.weighted) >= 2
  /\ \E k \in 1..Len(last.weighted) : Item(last.weighted[k].code).MinPerDay > 0
  /\ \A k \in 1..Len(last.weighted) : ~CarriesMinimumBoost(k)

\* with skip-priority the draw can mix boosted and unboosted items
C32_WitnessSkipped ==
  /\ GetRan /\ last.asked.SkipMinimums /\ last.err = ""
  /\ \E k \in 1..Len(last.weighted) : CarriesMinimumBoost(k)
  /\ \E k \in 1..Len(last.weighted) : ~CarriesMinimumBoost(k)

\* C33. Command dispatch: `movodoro help`, `--help` and `-h` print the usage
\* text, `movodoro version`, `--version` and `-v` print the version, and
\* none of them starts an interactive session or touches the ledger or the
\* saved current item.  Stated for a user who runs only these forms on a
\* fresh installation: nothing but the usage text and the version is ever
\* on the terminal, the ledger stays empty and no current item is saved.
C33_InfoCommandsOnlyPrint ==
  /\ last.cmd \in {"none", "usage", "version"}
  /\ logs = <<>>
  /\ current = NoCurrent

\* the records of a day in the directory as it was before the clear
RecordsBefore(day) ==
  IF day \in DOMAIN last.before THEN Tail(last.before[day]) ELSE <<>>

OtherDaysUnchanged ==
  /\ LogDays \ {DayOf(last.at)} = DOMAIN last.before \ {DayOf(last.at)}
  /\ \A d \in LogDays \ {DayOf(last.at)} : logs[d] = last.before[d]

TodayEmptied ==
  /\ TodayRecords = <<>>
  /\ \A code \in Codes : CompletedToday(code) = 0
  /\ CumulativeIntensity = 0
  /\ GetTodayStatsDaily.TotalMovos = 0
  /\ ~InRecoveryMode(maxDailyRPEDefault)

\* what a clear leaves, given whether the answer counts as a confirmation
ClearEffect(confirmation) ==
  last.cmd = "clear" =>
    /\ last.err = ""
    /\ current = last.saved
    /\ OtherDaysUnchanged
    /\ (confirmation /\ RecordsBefore(Today) # <<>>) => TodayEmptied
    /\ (~confirmation \/ RecordsBefore(Today) = <<>>) => logs = last.before

C34_WitnessRefused ==
  /\ last.cmd = "clear"
  /\ last.answer = "no"
  /\ TodayRecords # <<>>
  /\ logs = last.before

\* the code a done or skip run was aimed at, and whether it names an item
MarkTarget == IF last.arg # NoArg THEN last.arg ELSE last.saved

ValidTarget ==
  /\ last.arg = NoArg => last.saved # NoCurrent
  /\ MarkTarget \in Codes

\* the value a prompt answer stands for: the integer typed, else the default
AnswerOr(input, default) ==
  IF input \in {Num(n) : n \in -30..30} THEN input[2] ELSE default

MidpointUp(item) ==
  ((item.DurationMin + item.DurationMax) \div 2)
    + ((item.DurationMin + item.DurationMax) % 2)

\* today's file is the one of before plus one record, the other files are
\* as before
OneEventAppended ==
  /\ LogDays = DOMAIN last.before \cup {Today}
  /\ \A d \in LogDays \ {Today} : logs[d] = last.before[d]
  /\ Len(TodayRecords) = Len(RecordsBefore(Today)) + 1
  /\ \A k \in 1..Len(RecordsBefore(Today)) :
       TodayRecords[k] = RecordsBefore(Today)[k]

NewEvent == TodayRecords[Len(TodayRecords)]

\* C35. done/skip reject unknown targets without touching the ledger: with
\* a code that is not the full code of a catalog item, or with no code when
\* no current item is saved, the run fails and appends no event; with a
\* valid target exactly one event for that code is appended (status done or
\* skip), and for done the recorded duration and intensity fall back to the
\* item's default duration and effective intensity when the input is empty
\* or not an integer.
C35_MarkTargets ==
  last.cmd \in {"done", "skip"} =>
    IF ~ValidTarget
    THEN last.err # "" /\ logs = last.before /\ current = last.saved
    ELSE /\ last.err = ""
         /\ OneEventAppended
         /\ NewEvent[2] = Txt(MarkTarget)
         /\ NewEvent[3] = Txt(last.cmd)
         /\ last.cmd = "done" =>
              /\ NewEvent[4] = Num(AnswerOr(last.durationInput,
                                            MidpointUp(Item(MarkTarget))))
              /\ NewEvent[5] = Num(AnswerOr(last.rpeInput,
                                            Item(MarkTarget).EffectiveRPE))

\* a done of the saved snack, the duration answered with a word and the
\* intensity left empty
C35_Witness ==
  /\ last.cmd = "done" /\ last.err = ""
  /\ last.arg = NoArg
  /\ last.durationInput # "" /\ last.durationInput[1] = "t"
  /\ last.rpeInput = ""
  /\ NewEvent[4] = Num(MidpointUp(Item(last.saved)))

\* a rejected run on a day that has entries
C35_WitnessRejected ==
  /\ last.cmd \in {"done", "skip"}
  /\ last.err = "NotFound"
  /\ TodayRecords # <<>>

C35_WitnessNoCurrent ==
  /\ last.cmd = "skip" /\ last.err = "NoCurrent"

\* a record of six fields whose timestamp, duration and intensity parse
WellFormed(record) ==
  /\ Len(record) = 6
  /\ record[1][1] = "n" /\ record[4][1] = "n" /\ record[5][1] = "n"

\* the records of today's file, a header row not counted
TodayBody ==
  IF FileOf(Today) # <<>> /\ FileOf(Today)[1] = Header
  THEN Tail(FileOf(Today)) ELSE FileOf(Today)

EntryOf(record) ==
  [err |-> "", Timestamp |-> record[1][2], Code |-> record[2][2],
   Status |-> record[3][2], Duration |-> record[4][2], RPE |-> record[5][2],
   Subset |-> record[6][2]]

\* C36. Malformed records never abort a load: when a day's log holds
\* records with a wrong field count, an unparsable timestamp, duration or
\* intensity, loading returns exactly the well-formed records in file order
\* and no error; parseCSVRecord returns an error for each such record and
\* the entry with the given fields for a well-formed one.
C36_MalformedRecordsSkipped ==
  /\ \A k \in 1..Len(TodayBody) :
       IF WellFormed(TodayBody[k])
       THEN parseCSVRecord(TodayBody[k]) = EntryOf(TodayBody[k])
       ELSE parseCSVRecord(TodayBody[k]).err # ""
  /\ last.cmd = "load" =>
       /\ last.err = ""
       /\ last.entries =
            [k \in 1..Len(SelectSeq(TodayBody, WellFormed)) |->
               EntryOf(SelectSeq(TodayBody, WellFormed)[k])]

\* C37. Everyday report consistency: the number of completed items in the
\* summary line of `everyday` equals the number of items listed with the
\* completed mark, which is the number of items with minPerDay > 0 whose
\* today's completed-count is >= minPerDay.
C37_EverydaySummary ==
  (last.cmd = "everyday" /\ last.err = "") =>
    /\ last.completed =
         Cardinality({k \in 1..Len(last.lines) : last.lines[k].status = "completed"})
    /\ last.completed =
         Cardinality({code \in Codes :
                        /\ Item(code).MinPerDay > 0
                        /\ CompletedToday(code) >= Item(code).MinPerDay})

\* C38. Default duration: for every item with 0 < DurationMin <=
\* DurationMax, GetDefaultDuration returns the midpoint of the range rounded
\* up, ceil((DurationMin + DurationMax) / 2), which lies within
\* [DurationMin, DurationMax]; [3,5] gives 4, [3,6] gives 5, [3,3] gives 3.
\* (v is the ceiling of s / 2 iff s <= 2v < s + 2.)
C38_DefaultDuration ==
  last.cmd = "duration" =>
    /\ snacks[1].DurationMin + snacks[1].DurationMax <= 2 * last.default
    /\ 2 * last.default < snacks[1].DurationMin + snacks[1].DurationMax + 2
    /\ snacks[1].DurationMin <= last.default
    /\ last.default <= snacks[1].DurationMax
    /\ (snacks[1].DurationMin = 3 /\ snacks[1].DurationMax = 5) => last.default = 4
    /\ (snacks[1].DurationMin = 3 /\ snacks[1].DurationMax = 6) => last.default = 5
    /\ (snacks[1].DurationMin = 3 /\ snacks[1].DurationMax = 3) => last.default = 3

\* a range of even length, where rounding up matters
C38_Witness ==
  /\ last.cmd = "duration"
  /\ snacks[1].DurationMin = 3 /\ snacks[1].DurationMax = 6
  /\ last.default = 5

\* C39. Last-completed lookup: GetLastDoneDaily(code) returns the greatest
\* timestamp among the completed events of the code (nil iff there is
\* none), also when events were appended with timestamps that are not in
\* increasing order or that fall on another day than the file they were
\* appended to; HasEverBeenDoneDaily(code) is true iff that result is
\* non-nil.
C39_LastCompleted ==
  \A code \in Codes :
    /\ GetLastDoneDaily(code) =
         IF NeverCompleted(code) THEN NoTime ELSE MostRecentCompletion(code)
    /\ HasEverBeenDoneDaily(code) <=> GetLastDoneDaily(code) # NoTime

====
